---- MODULE Spec2Model ----
(***************************************************************************)
(* SpyNet: session-scoped HTTP/WebSocket mock server.                      *)
(* State machine of the session store (SessionManager), the per-session   *)
(* endpoint maps served by the HTTP handlers of createServer, the          *)
(* stand-alone EndpointRegistry class and the WebSocketHub.                *)
(***************************************************************************)
EXTENDS Integers, Sequences, FiniteSets, Bags, TLC

\* ------------------------------------------------------------------ bounds
\* requests recorded per session in the bounded specifications
MaxHistory == 3
\* getNextResponse calls made on the stand-alone registry per configuration
MaxCalls == 3
\* WebSocket handshakes accepted in one run
MaxChannels == 2
\* messages written to the sockets in one run
MaxWrites == 2
\* value of the clock at which Tick stops
MaxTime == 4
\* data-plane requests delivered but not yet handled
MaxPending == 2
\* requests of the long single-key run that reaches the history cap
MaxLongRun == 1002
\* SessionManagerConfig.ttl, in clock ticks
TTL == 2

\* requests recorded by a session that is followed through its sockets
MaxLifeHistory == 1

\* ------------------------------------------------------- program constants
\* "Trim history to last 1000 items"
HistoryCap == 1000
\* reply of the data plane when no endpoint is configured
NotFound == 404

\* the limit of a history query when none is given, and the most it returns
DefaultLimit == 100
MaxLimit == 1000

\* --------------------------------------------------------------- the state
VARIABLES
    sessions,        \* SessionManager.sessions: id -> Session (live ids only)
    order,           \* insertion order of the sessions Map
    cleanupInterval, \* SessionManager.cleanupInterval is set (TRUE) or null
    connections,     \* WebSocketHub.connections: id -> channel
    channels,        \* every socket accepted so far, in handshake order
    now,             \* Date.now()
    pending,         \* data-plane requests delivered, handler not yet run
    served,          \* per (session, key): replies since its last configure
    registry,        \* EndpointRegistry.endpoints of a stand-alone registry
    regServed,       \* per key: getNextResponse results since its last configure
    ret              \* what the last operation returned

vars == <<sessions, order, cleanupInterval, connections, channels, now,
          pending, served, registry, regServed, ret>>

storeVars == <<sessions, order, cleanupInterval>>
hubVars == <<connections, channels>>
regVars == <<registry, regServed>>

\* ------------------------------------------------------------------ inputs
SessionIds == {"s1", "s2"}
Methods == {"GET", "get", "POST"}
Paths == {"/api/test", "/api/test/"}

R200 == [status |-> 200, body |-> "ok"]
R201 == [status |-> 201, body |-> "created"]
R500 == [status |-> 500, body |-> "error"]

\* response arrays a caller may send; the HTTP control plane accepts them all
ResponseLists == {<<>>, <<R200>>, <<R500, R200>>, <<R500, R201, R200>>}
NonEmptyResponseLists == ResponseLists \ {<<>>}
\* the arrays used where one key is configured again and again
SeqLists == {<<R200>>, <<R500, R200>>}

\* the session id of a tool call: one of the ids, or none given
ToolSessionIds == SessionIds \cup {""}

\* the limit of a history query
Limits == {0, 1, 2, 5}

\* ----------------------------------------------------------------- helpers
Null == 0

Min(a, b) == IF a < b THEN a ELSE b

\* a function with x removed from / added to its domain
Without(f, xs) == [x \in DOMAIN f \ xs |-> f[x]]

With(f, k, v) == [x \in DOMAIN f \cup {k} |-> IF x = k THEN v ELSE f[x]]

\* Array.prototype.slice(-n) for n >= 1: the last n elements
SliceLast(seq, n) ==
    IF Len(seq) <= n THEN seq ELSE SubSeq(seq, Len(seq) - n + 1, Len(seq))

\* Array.prototype.slice(start): a negative start counts from the end, and
\* slice(-0) is slice(0), the whole array
Slice(seq, start) ==
    LET from == IF start < 0
                THEN (IF Len(seq) + start < 0 THEN 0 ELSE Len(seq) + start)
                ELSE Min(start, Len(seq))
    IN  SubSeq(seq, from + 1, Len(seq))

\* the responses argument of a tool call: an array, another value, or none
JsArray(items) == [kind |-> "array", items |-> items]
NotAnArray == [kind |-> "string", items |-> << >>]
Absent == [kind |-> "undefined", items |-> << >>]

\* a missing argument (undefined) or an empty string: !x
Falsy(x) == x = ""

\* variant: the method is used as it is written
SameCase(method) == method

\* String.prototype.toUpperCase on the method names in use
ToUpperCase(method) ==
    CASE method = "get" -> "GET"
      [] method = "post" -> "POST"
      [] OTHER -> method

\* variant: the key is the path alone
KeyOfPath(method, path) == path

\* `${method.toUpperCase()}:${path}`
MakeKey(method, path) == ToUpperCase(method) \o ":" \o path

Keys == {MakeKey(m, p) : m \in Methods, p \in Paths}

\* ------------------------------------------------------- endpoint sequence
\* variant: past the last response the sequence starts over
NextIndexStuck(callCount, n) == IF callCount < n THEN callCount ELSE 0

\* Math.min(config.callCount, config.responses.length - 1)
NextIndex(callCount, n) == Min(callCount, n - 1)

\* variant: a served request counts twice
BumpTwice(callCount) == callCount + 2

\* variant: the counter is read but not advanced
NoBump(callCount) == callCount

\* config.callCount++
Bump(callCount) == callCount + 1

\* variant: an entry configured again keeps its counter
KeepCount(eps, method, path, responses) ==
    [method |-> method, path |-> path, responses |-> responses,
     callCount |-> IF MakeKey(method, path) \in DOMAIN eps
                   THEN eps[MakeKey(method, path)].callCount ELSE 0]

\* the entry of session.endpoints.set(key, {method, path, responses, callCount: 0})
\* (eps: the map it is stored in)
NewEndpoint(eps, method, path, responses) ==
    [method |-> method, path |-> path, responses |-> responses, callCount |-> 0]

\* ------------------------------------------------------------ SessionManager
\* variant: a new session carries the timestamps of the server's start
BackdatedSession(sid, t) ==
    [id |-> sid, createdAt |-> 0, lastActivityAt |-> 0,
     endpoints |-> << >>, websocket |-> Null, requestHistory |-> << >>]

\* getOrCreate's new session
NewSession(sid, t) ==
    [id |-> sid, createdAt |-> t, lastActivityAt |-> t,
     endpoints |-> << >>, websocket |-> Null, requestHistory |-> << >>]

\* variant: every call stores a fresh session under the id
AlwaysCreate(ss, sid, t) == With(ss, sid, NewSession(sid, t))

\* variant: a session found expired on access is replaced by a fresh one
ExpireOnAccess(ss, sid, t) ==
    IF sid \in DOMAIN ss /\ t - ss[sid].lastActivityAt <= TTL
    THEN ss
    ELSE With(ss, sid, NewSession(sid, t))

\* SessionManager.getOrCreate: the sessions Map afterwards
GetOrCreate(ss, sid, t) ==
    IF sid \in DOMAIN ss THEN ss ELSE With(ss, sid, NewSession(sid, t))

\* variant: a new session is listed first
NewestFirst(ss, ord, sid) ==
    IF sid \in DOMAIN ss THEN ord ELSE <<sid>> \o ord

\* insertion order of the Map after getOrCreate
OrderAfterGetOrCreate(ss, ord, sid) ==
    IF sid \in DOMAIN ss THEN ord ELSE Append(ord, sid)

\* variant: a touch also restarts the session's creation time
TouchResetsCreation(ss, sid, t) ==
    IF sid \in DOMAIN ss
    THEN [ss EXCEPT ![sid].lastActivityAt = t, ![sid].createdAt = t]
    ELSE ss

\* variant: touching an unknown id stores a session for it
TouchOrCreate(ss, sid, t) == [GetOrCreate(ss, sid, t) EXCEPT ![sid].lastActivityAt = t]

\* variant: a session's activity time is never renewed
NoTouch(ss, sid, t) == ss

\* SessionManager.updateActivity
UpdateActivity(ss, sid, t) ==
    IF sid \in DOMAIN ss THEN [ss EXCEPT ![sid].lastActivityAt = t] ELSE ss

\* SessionManager.listSessions: one entry per value of the Map, in its order
ListSessions(ss, ord) ==
    [i \in 1..Len(ord) |->
        [id |-> ss[ord[i]].id, createdAt |-> ss[ord[i]].createdAt,
         lastActivityAt |-> ss[ord[i]].lastActivityAt,
         connected |-> ss[ord[i]].websocket # Null]]

\* WebSocket.close(): an open socket starts its closing handshake; the
\* 'close' event is emitted later
CloseSocket(ch) == IF ch.state = "open" THEN [ch EXCEPT !.state = "closing"] ELSE ch

RemoveFromOrder(ord, ids) == SelectSeq(ord, LAMBDA x : x \notin ids)

\* variant: a deleted session has its socket closed but stays in the Map
KeepSessions(ss, ids) == ss

\* SessionManager.deleteSession applied to each id of ids: the Map afterwards
SessionsAfterDelete(ss, ids) == Without(ss, ids)

\* ... and the sockets: session.websocket.close() of each deleted session;
\* the close callbacks of its sockets keep the deleted Session object
ChannelsAfterDelete(ss, chans, ids) ==
    [c \in DOMAIN chans |->
        IF chans[c].sid \in ids \cap DOMAIN ss
        THEN [(IF ss[chans[c].sid].websocket = c
               THEN CloseSocket(chans[c]) ELSE chans[c])
                 EXCEPT !.attached = FALSE]
        ELSE chans[c]]

ServedAfterDelete(sv, ids) == Without(sv, {k \in DOMAIN sv : k[1] \in ids})

\* -------------------------------------------------------------- WebSocketHub
\* variant: a second socket of a session is turned away
KeepFirst(conns, sid, c) == IF sid \in DOMAIN conns THEN conns ELSE With(conns, sid, c)

\* WebSocketHub.register: connections.set(sessionId, ws)
Register(conns, sid, c) == With(conns, sid, c)

\* variant: unregistering one session empties the hub
UnregisterAll(conns, sid) == << >>

\* WebSocketHub.unregister: connections.delete(sessionId)
Unregister(conns, sid) == Without(conns, {sid})

\* WebSocketHub.isConnected
IsConnected(conns, sid) == sid \in DOMAIN conns

\* ------------------------------------------------------------------- state
Init ==
    /\ sessions = << >>
    /\ order = << >>
    /\ cleanupInterval = TRUE
    /\ connections = << >>
    /\ channels = << >>
    /\ now = 0
    /\ pending = EmptyBag
    /\ served = << >>
    /\ registry = << >>
    /\ regServed = << >>
    /\ ret = [op |-> "init"]

\* ------------------------------------------------ data plane (createServer)
\* "Trim history to last 1000 items"
TrimHistory(history) ==
    IF Len(history) > HistoryCap THEN SliceLast(history, HistoryCap) ELSE history

\* variant: every record is marked as served from a configuration
RecordAsConfigured(method, path, status, t, configured, responseTime) ==
    [method |-> method, path |-> path, status |-> status, timestamp |-> t,
     configured |-> TRUE, responseTime |-> responseTime]

\* the record pushed onto session.requestHistory
RequestRecord(method, path, status, t, configured, responseTime) ==
    [method |-> method, path |-> path, status |-> status, timestamp |-> t,
     configured |-> configured, responseTime |-> responseTime]

\* the handler of server.all('/session/:sessionId/*'): it has no await, so it
\* runs to completion once the event loop starts it
HandleRequest(sid, method, path) ==
    LET ss1 == UpdateActivity(GetOrCreate(sessions, sid, now), sid, now)
        key == MakeKey(method, path)
        eps == ss1[sid].endpoints
        startTime == now
        responseTime == now - startTime
    IN  /\ order' = OrderAfterGetOrCreate(sessions, order, sid)
        /\ IF key \notin DOMAIN eps \/ Len(eps[key].responses) = 0
           THEN /\ sessions' = [ss1 EXCEPT ![sid].requestHistory =
                        Append(@, RequestRecord(method, path, NotFound, now,
                                                FALSE, responseTime))]
                /\ served' = served
                /\ ret' = [op |-> "request", sid |-> sid, key |-> key,
                           method |-> method, path |-> path,
                           configured |-> FALSE, status |-> NotFound,
                           count |-> -1, index |-> -1, body |-> "not configured"]
           ELSE LET config == eps[key]
                    index == NextIndex(config.callCount, Len(config.responses))
                    response == config.responses[index + 1]
                IN  /\ sessions' = [ss1 EXCEPT
                            ![sid].endpoints[key].callCount = Bump(@),
                            ![sid].requestHistory =
                                TrimHistory(Append(@, RequestRecord(method, path,
                                    response.status, now, TRUE, responseTime)))]
                    /\ served' = With(served, <<sid, key>>,
                            Append(IF <<sid, key>> \in DOMAIN served
                                   THEN served[<<sid, key>>] ELSE << >>,
                                   [count |-> config.callCount, index |-> index,
                                    response |-> response]))
                    /\ ret' = [op |-> "request", sid |-> sid, key |-> key,
                               method |-> method, path |-> path,
                               configured |-> TRUE, status |-> response.status,
                               count |-> config.callCount, index |-> index,
                               body |-> response.body]
        /\ UNCHANGED <<cleanupInterval, hubVars, now, regVars>>

\* a request arrives and its handler runs at once
DataPlaneRequest(sid, method, path) ==
    /\ HandleRequest(sid, method, path)
    /\ UNCHANGED pending

\* a request arrives while others are still waiting for the event loop
Deliver(sid, method, path) ==
    /\ BagCardinality(pending) < MaxPending
    /\ pending' = pending (+) SetToBag({<<sid, method, path>>})
    /\ UNCHANGED <<storeVars, hubVars, now, served, regVars, ret>>

\* the event loop runs the handler of one waiting request
Dispatch(sid, method, path) ==
    /\ BagIn(<<sid, method, path>>, pending)
    /\ pending' = pending (-) SetToBag({<<sid, method, path>>})
    /\ HandleRequest(sid, method, path)

\* --------------------------------------------- control plane (createServer)
\* variant: one endpoint map shared by all sessions
ConfigureShared(sid, method, path, responses) ==
    LET ss1 == UpdateActivity(GetOrCreate(sessions, sid, now), sid, now)
        key == MakeKey(method, path)
    IN  /\ sessions' = [x \in DOMAIN ss1 |-> [ss1[x] EXCEPT !.endpoints =
                With(@, key, NewEndpoint(@, method, path, responses))]]
        /\ order' = OrderAfterGetOrCreate(sessions, order, sid)
        /\ served' = With(served, <<sid, key>>, << >>)
        /\ ret' = [op |-> "configure", sid |-> sid, key |-> key, status |-> 201]
        /\ UNCHANGED <<cleanupInterval, hubVars, now, pending, regVars>>

\* POST /_mock/sessions/:sessionId/endpoints
HTTPConfigure(sid, method, path, responses) ==
    LET ss1 == UpdateActivity(GetOrCreate(sessions, sid, now), sid, now)
        key == MakeKey(method, path)
    IN  /\ sessions' = [ss1 EXCEPT ![sid].endpoints =
                With(@, key, NewEndpoint(@, method, path, responses))]
        /\ order' = OrderAfterGetOrCreate(sessions, order, sid)
        /\ served' = With(served, <<sid, key>>, << >>)
        /\ ret' = [op |-> "configure", sid |-> sid, key |-> key, status |-> 201]
        /\ UNCHANGED <<cleanupInterval, hubVars, now, pending, regVars>>

\* variant: listing the endpoints of an unknown id stores no session
ListWithoutCreate(sid) ==
    /\ ret' = [op |-> "listEndpoints", sid |-> sid, status |-> 200,
               endpoints |-> IF sid \in DOMAIN sessions
                             THEN {sessions[sid].endpoints[k] :
                                        k \in DOMAIN sessions[sid].endpoints}
                             ELSE {}]
    /\ UNCHANGED <<storeVars, hubVars, now, pending, served, regVars>>

\* GET /_mock/sessions/:sessionId/endpoints
HTTPListEndpoints(sid) ==
    LET ss1 == GetOrCreate(sessions, sid, now)
    IN  /\ sessions' = ss1
        /\ order' = OrderAfterGetOrCreate(sessions, order, sid)
        /\ ret' = [op |-> "listEndpoints", sid |-> sid, status |-> 200,
                   endpoints |-> {ss1[sid].endpoints[k] : k \in DOMAIN ss1[sid].endpoints}]
        /\ UNCHANGED <<cleanupInterval, hubVars, now, pending, served, regVars>>

\* DELETE /_mock/sessions/:sessionId/endpoints?method=&path=
HTTPClearEndpoint(sid, method, path) ==
    LET ss1 == GetOrCreate(sessions, sid, now)
        key == MakeKey(method, path)
    IN  /\ sessions' = [ss1 EXCEPT ![sid].endpoints = Without(@, {key})]
        /\ order' = OrderAfterGetOrCreate(sessions, order, sid)
        /\ served' = Without(served, {<<sid, key>>})
        /\ ret' = [op |-> "clear", sid |-> sid, key |-> key, status |-> 204]
        /\ UNCHANGED <<cleanupInterval, hubVars, now, pending, regVars>>

\* DELETE /_mock/sessions/:sessionId/endpoints with no method or no path
HTTPClearAll(sid) ==
    LET ss1 == GetOrCreate(sessions, sid, now)
    IN  /\ sessions' = [ss1 EXCEPT ![sid].endpoints = << >>]
        /\ order' = OrderAfterGetOrCreate(sessions, order, sid)
        /\ served' = ServedAfterDelete(served, {sid})
        /\ ret' = [op |-> "clearAll", sid |-> sid, status |-> 204]
        /\ UNCHANGED <<cleanupInterval, hubVars, now, pending, regVars>>

\* DELETE /_mock/sessions/:sessionId -> SessionManager.deleteSession
\* variant: the delete route also drops the session's hub entry
DeleteUnregisters(sid) ==
    /\ sessions' = SessionsAfterDelete(sessions, {sid})
    /\ order' = RemoveFromOrder(order, {sid})
    /\ channels' = ChannelsAfterDelete(sessions, channels, {sid})
    /\ connections' = Unregister(connections, sid)
    /\ served' = ServedAfterDelete(served, {sid})
    /\ ret' = [op |-> "deleteSession", sid |-> sid,
               ok |-> sid \in DOMAIN sessions,
               status |-> IF sid \in DOMAIN sessions THEN 204 ELSE 404]
    /\ UNCHANGED <<cleanupInterval, now, pending, regVars>>

HTTPDeleteSession(sid) ==
    /\ sessions' = SessionsAfterDelete(sessions, {sid})
    /\ order' = RemoveFromOrder(order, {sid})
    /\ channels' = ChannelsAfterDelete(sessions, channels, {sid})
    /\ served' = ServedAfterDelete(served, {sid})
    /\ ret' = [op |-> "deleteSession", sid |-> sid,
               ok |-> sid \in DOMAIN sessions,
               status |-> IF sid \in DOMAIN sessions THEN 204 ELSE 404]
    /\ UNCHANGED <<cleanupInterval, connections, now, pending, regVars>>

\* session.requestHistory.slice(-Math.min(limit, 1000))
HistorySlice(history, limit) == Slice(history, 0 - Min(limit, MaxLimit))

\* GET /_mock/sessions/:sessionId/requests?limit=N; the query value is a
\* decimal numeral, read by parseInt(request.query.limit ?? '100', 10)
HTTPGetRequests(sid, hasLimit, n) ==
    LET ss1 == GetOrCreate(sessions, sid, now)
        limit == IF hasLimit THEN n ELSE DefaultLimit
    IN  /\ sessions' = ss1
        /\ order' = OrderAfterGetOrCreate(sessions, order, sid)
        /\ ret' = [op |-> "getRequests", sid |-> sid, status |-> 200,
                   limit |-> limit, stored |-> ss1[sid].requestHistory,
                   records |-> HistorySlice(ss1[sid].requestHistory, limit)]
        /\ UNCHANGED <<cleanupInterval, hubVars, now, pending, served, regVars>>

\* GET /_mock/sessions -> SessionManager.listSessions
HTTPListSessions ==
    /\ ret' = [op |-> "listSessions", status |-> 200,
               list |-> ListSessions(sessions, order)]
    /\ UNCHANGED <<storeVars, hubVars, now, pending, served, regVars>>

\* a caller of the store touches a session: SessionManager.updateActivity
UpdateActivityCall(sid) ==
    /\ sessions' = UpdateActivity(sessions, sid, now)
    /\ ret' = [op |-> "updateActivity", sid |-> sid]
    /\ UNCHANGED <<order, cleanupInterval, hubVars, now, pending, served, regVars>>

\* ------------------------------------------------- EndpointRegistry (class)
\* EndpointRegistry.configure
RegConfigure(method, path, responses) ==
    /\ registry' = With(registry, MakeKey(method, path),
                        NewEndpoint(registry, method, path, responses))
    /\ regServed' = With(regServed, MakeKey(method, path), << >>)
    /\ ret' = [op |-> "registry.configure", key |-> MakeKey(method, path)]
    /\ UNCHANGED <<storeVars, hubVars, now, pending, served>>

\* EndpointRegistry.get: the entry of (method, path), if any
RegGet(reg, method, path) ==
    IF MakeKey(method, path) \in DOMAIN reg
    THEN <<reg[MakeKey(method, path)]>> ELSE << >>

\* variant: a miss leaves an entry with no responses behind
RegMissCreates(method, path) ==
    LET key == MakeKey(method, path)
    IN  /\ IF key \notin DOMAIN registry \/ Len(registry[key].responses) = 0
           THEN /\ registry' = With(registry, key,
                        NewEndpoint(registry, method, path, << >>))
                /\ regServed' = regServed
                /\ ret' = [op |-> "registry.getNextResponse", key |-> key,
                           found |-> FALSE, count |-> -1, index |-> -1]
           ELSE LET config == registry[key]
                    index == NextIndex(config.callCount, Len(config.responses))
                    response == config.responses[index + 1]
                IN  /\ registry' = [registry EXCEPT ![key].callCount = Bump(@)]
                    /\ regServed' = With(regServed, key,
                            Append(IF key \in DOMAIN regServed
                                   THEN regServed[key] ELSE << >>,
                                   [count |-> config.callCount, index |-> index,
                                    response |-> response]))
                    /\ ret' = [op |-> "registry.getNextResponse", key |-> key,
                               found |-> TRUE, count |-> config.callCount,
                               index |-> index, response |-> response]
        /\ UNCHANGED <<storeVars, hubVars, now, pending, served>>

\* EndpointRegistry.getNextResponse
RegGetNextResponse(method, path) ==
    LET key == MakeKey(method, path)
    IN  /\ IF key \notin DOMAIN registry \/ Len(registry[key].responses) = 0
           THEN /\ UNCHANGED regVars
                /\ ret' = [op |-> "registry.getNextResponse", key |-> key,
                           found |-> FALSE, count |-> -1, index |-> -1]
           ELSE LET config == registry[key]
                    index == NextIndex(config.callCount, Len(config.responses))
                    response == config.responses[index + 1]
                IN  /\ registry' = [registry EXCEPT ![key].callCount = Bump(@)]
                    /\ regServed' = With(regServed, key,
                            Append(IF key \in DOMAIN regServed
                                   THEN regServed[key] ELSE << >>,
                                   [count |-> config.callCount, index |-> index,
                                    response |-> response]))
                    /\ ret' = [op |-> "registry.getNextResponse", key |-> key,
                               found |-> TRUE, count |-> config.callCount,
                               index |-> index, response |-> response]
        /\ UNCHANGED <<storeVars, hubVars, now, pending, served>>

\* variant: clearing one key empties the registry
RegClearDropsAll(method, path) ==
    /\ registry' = << >>
    /\ regServed' = << >>
    /\ ret' = [op |-> "registry.clear", key |-> MakeKey(method, path),
               ok |-> MakeKey(method, path) \in DOMAIN registry]
    /\ UNCHANGED <<storeVars, hubVars, now, pending, served>>

\* EndpointRegistry.clear
RegClear(method, path) ==
    /\ registry' = Without(registry, {MakeKey(method, path)})
    /\ regServed' = Without(regServed, {MakeKey(method, path)})
    /\ ret' = [op |-> "registry.clear", key |-> MakeKey(method, path),
               ok |-> MakeKey(method, path) \in DOMAIN registry]
    /\ UNCHANGED <<storeVars, hubVars, now, pending, served>>

\* variant: a lookup counts as a call
RegGetAdvancing(method, path) ==
    /\ registry' = IF MakeKey(method, path) \in DOMAIN registry
                   THEN [registry EXCEPT ![MakeKey(method, path)].callCount = @ + 1]
                   ELSE registry
    /\ ret' = [op |-> "registry.get", key |-> MakeKey(method, path),
               config |-> RegGet(registry, method, path)]
    /\ UNCHANGED <<storeVars, hubVars, now, pending, served, regServed>>

\* EndpointRegistry.get, called for introspection
RegGetCall(method, path) ==
    /\ ret' = [op |-> "registry.get", key |-> MakeKey(method, path),
               config |-> RegGet(registry, method, path)]
    /\ UNCHANGED <<storeVars, hubVars, now, pending, served, regVars>>

\* EndpointRegistry.list
RegList ==
    /\ ret' = [op |-> "registry.list",
               endpoints |-> {registry[k] : k \in DOMAIN registry}]
    /\ UNCHANGED <<storeVars, hubVars, now, pending, served, regVars>>

\* EndpointRegistry.clearAll
RegClearAll ==
    /\ registry' = << >>
    /\ regServed' = << >>
    /\ ret' = [op |-> "registry.clearAll"]
    /\ UNCHANGED <<storeVars, hubVars, now, pending, served>>

\* ------------------------------------------------------- message envelopes
\* JavaScript values of the payloads: undefined, null, a string, an object.
\* The callers (HTTP bodies, MCP arguments) pass values decoded from JSON.
Undefined == [type |-> "undefined", v |-> ""]
JsNull == [type |-> "null", v |-> ""]
JsString(s) == [type |-> "string", v |-> s]
JsObject(text) == [type |-> "object", v |-> text]

\* property of an object, undefined when it has none of that name
Field(obj, k) == IF k \in DOMAIN obj THEN obj[k] ELSE Undefined

\* deep equality of two objects (a property that is undefined counts as absent)
SameObject(a, b) == \A k \in DOMAIN a \cup DOMAIN b : Field(a, k) = Field(b, k)

\* the JSON text of one value
JsonText(x) ==
    CASE x.type = "null" -> "null"
      [] x.type = "string" -> "\"" \o x.v \o "\""
      [] x.type = "object" -> "{" \o x.v \o "}"

\* JSON.parse of the text of one value
JsonValue(text) ==
    CASE text = "null" -> JsNull
      [] text = "\"action\"" -> JsString("action")
      [] text = "\"data\"" -> JsString("data")
      [] text = "\"logout\"" -> JsString("logout")
      [] text = "\"hello\"" -> JsString("hello")
      [] text = "{\"reason\":\"t\"}" -> JsObject("\"reason\":\"t\"")

\* JSON.stringify of an object literal, given as its <<name, value>> pairs in
\* order: a property whose value is undefined is left out
JsonStringify(props) ==
    LET kept == SelectSeq(props, LAMBDA pr : pr[2] # Undefined)
    IN  [i \in 1..Len(kept) |-> <<kept[i][1], JsonText(kept[i][2])>>]

\* JSON.parse of such a text: the object it denotes
JsonParse(text) ==
    [k \in {text[i][1] : i \in 1..Len(text)} |->
        JsonValue(text[CHOOSE i \in 1..Len(text) : text[i][1] = k][2])]

\* variant: the action is sent without its parameters
ActionMessageNoParams(action, params) ==
    <<(<<"type", JsString("action")>>), (<<"action", action>>)>>

\* { type: 'action', action, params }
ActionMessage(action, params) ==
    <<(<<"type", JsString("action")>>), (<<"action", action>>), (<<"params", params>>)>>

\* variant: data goes out under the type of an action
DataMessageAsAction(data) == <<(<<"type", JsString("action")>>), (<<"data", data>>)>>

\* { type: 'data', data }
DataMessage(data) == <<(<<"type", JsString("data")>>), (<<"data", data>>)>>

ActionNames == {JsString("logout")}
ParamValues == {Undefined, JsNull, JsObject("\"reason\":\"t\"")}
DataValues == {JsString("hello"), JsNull, JsObject("\"reason\":\"t\"")}

\* ws.send(JSON.stringify(message)) on the socket registered for sid, if any
SendTo(conns, chans, sid, message) ==
    IF sid \in DOMAIN conns
    THEN [chans EXCEPT ![conns[sid]].sent = Append(@, JsonStringify(message))]
    ELSE chans

\* variant: the send looks its session up with getOrCreate
SendActionCreating(sid, action, params) ==
    /\ channels' = SendTo(connections, channels, sid, ActionMessage(action, params))
    /\ sessions' = GetOrCreate(sessions, sid, now)
    /\ order' = OrderAfterGetOrCreate(sessions, order, sid)
    /\ ret' = [op |-> "sendAction", sid |-> sid,
               ok |-> IsConnected(connections, sid),
               status |-> IF IsConnected(connections, sid) THEN 200 ELSE 404]
    /\ UNCHANGED <<cleanupInterval, connections, now, pending, served, regVars>>

\* POST /_mock/sessions/:sessionId/socket/action -> WebSocketHub.sendAction
HTTPSendAction(sid, action, params) ==
    /\ channels' = SendTo(connections, channels, sid, ActionMessage(action, params))
    /\ ret' = [op |-> "sendAction", sid |-> sid,
               ok |-> IsConnected(connections, sid),
               status |-> IF IsConnected(connections, sid) THEN 200 ELSE 404]
    /\ UNCHANGED <<storeVars, connections, now, pending, served, regVars>>

\* POST /_mock/sessions/:sessionId/socket/message -> WebSocketHub.sendData
HTTPSendData(sid, data) ==
    /\ channels' = SendTo(connections, channels, sid, DataMessage(data))
    /\ ret' = [op |-> "sendData", sid |-> sid,
               ok |-> IsConnected(connections, sid),
               status |-> IF IsConnected(connections, sid) THEN 200 ELSE 404]
    /\ UNCHANGED <<storeVars, connections, now, pending, served, regVars>>

\* ------------------------------------------------------ WebSocket endpoint
\* GET /session/:sessionId/socket (upgrade): the handshake handler
Handshake(sid) ==
    LET c == Len(channels) + 1
        ss1 == GetOrCreate(sessions, sid, now)
    IN  /\ sessions' = [ss1 EXCEPT ![sid].websocket = c]
        /\ order' = OrderAfterGetOrCreate(sessions, order, sid)
        /\ connections' = Register(connections, sid, c)
        /\ channels' = Append(channels,
               [sid |-> sid, attached |-> TRUE, state |-> "open", sent |-> << >>])
        /\ ret' = [op |-> "handshake", sid |-> sid, channel |-> c]
        /\ UNCHANGED <<cleanupInterval, now, pending, served, regVars>>

\* variant: the close callback also deletes the session of the socket
CloseDropsSession(c) ==
    /\ c \in DOMAIN channels
    /\ channels[c].state # "closed"
    /\ channels' = [channels EXCEPT ![c].state = "closed"]
    /\ sessions' = Without(sessions, {channels[c].sid})
    /\ order' = RemoveFromOrder(order, {channels[c].sid})
    /\ connections' = Unregister(connections, channels[c].sid)
    /\ ret' = [op |-> "close", sid |-> channels[c].sid, channel |-> c]
    /\ UNCHANGED <<cleanupInterval, now, pending, served, regVars>>

\* socket.on('close'): the socket has closed (the peer left, or the closing
\* handshake started by close() has ended) and its callback runs
SocketClose(c) ==
    /\ c \in DOMAIN channels
    /\ channels[c].state # "closed"
    /\ channels' = [channels EXCEPT ![c].state = "closed"]
    /\ sessions' = IF channels[c].attached
                   THEN [sessions EXCEPT ![channels[c].sid].websocket = Null]
                   ELSE sessions
    /\ connections' = Unregister(connections, channels[c].sid)
    /\ ret' = [op |-> "close", sid |-> channels[c].sid, channel |-> c]
    /\ UNCHANGED <<order, cleanupInterval, now, pending, served, regVars>>

\* ------------------------------------------------- MCP tools (createTools)
\* variant: the session of a rejected call is stored all the same
FailsButCreates(tool, sid, error) ==
    /\ ret' = [op |-> tool, sid |-> sid, success |-> FALSE, error |-> error]
    /\ sessions' = GetOrCreate(sessions, sid, now)
    /\ order' = OrderAfterGetOrCreate(sessions, order, sid)
    /\ UNCHANGED <<cleanupInterval, hubVars, now, pending, served, regVars>>

\* a tool call that returns { success: false, error } and changes nothing
ToolFails(tool, sid, error) ==
    /\ ret' = [op |-> tool, sid |-> sid, success |-> FALSE, error |-> error]
    /\ UNCHANGED <<storeVars, hubVars, now, pending, served, regVars>>

\* variant: the tool renews the session's activity time as the HTTP route does
ConfigureToolTouches(sid, method, path, responses) ==
    IF Falsy(sid) \/ Falsy(method) \/ Falsy(path)
    THEN ToolFails("configure_endpoint", sid, "Missing required fields")
    ELSE IF responses.kind # "array" \/ Len(responses.items) = 0
    THEN ToolFails("configure_endpoint", sid, "Must provide at least one response")
    ELSE LET ss1 == UpdateActivity(GetOrCreate(sessions, sid, now), sid, now)
             key == MakeKey(method, path)
         IN  /\ sessions' = [ss1 EXCEPT ![sid].endpoints =
                     With(@, key, NewEndpoint(@, method, path, responses.items))]
             /\ order' = OrderAfterGetOrCreate(sessions, order, sid)
             /\ served' = With(served, <<sid, key>>, << >>)
             /\ ret' = [op |-> "configure_endpoint", sid |-> sid, key |-> key,
                        success |-> TRUE]
             /\ UNCHANGED <<cleanupInterval, hubVars, now, pending, regVars>>

\* configure_endpoint
MCPConfigureEndpoint(sid, method, path, responses) ==
    IF Falsy(sid) \/ Falsy(method) \/ Falsy(path)
    THEN ToolFails("configure_endpoint", sid, "Missing required fields")
    ELSE IF responses.kind # "array" \/ Len(responses.items) = 0
    THEN ToolFails("configure_endpoint", sid, "Must provide at least one response")
    ELSE LET ss1 == GetOrCreate(sessions, sid, now)
             key == MakeKey(method, path)
         IN  /\ sessions' = [ss1 EXCEPT ![sid].endpoints =
                     With(@, key, NewEndpoint(@, method, path, responses.items))]
             /\ order' = OrderAfterGetOrCreate(sessions, order, sid)
             /\ served' = With(served, <<sid, key>>, << >>)
             /\ ret' = [op |-> "configure_endpoint", sid |-> sid, key |-> key,
                        success |-> TRUE]
             /\ UNCHANGED <<cleanupInterval, hubVars, now, pending, regVars>>

\* list_sessions
MCPListSessions ==
    /\ ret' = [op |-> "list_sessions", success |-> TRUE,
               list |-> ListSessions(sessions, order)]
    /\ UNCHANGED <<storeVars, hubVars, now, pending, served, regVars>>

\* list_endpoints
MCPListEndpoints(sid) ==
    IF Falsy(sid)
    THEN ToolFails("list_endpoints", sid, "Missing required field")
    ELSE LET ss1 == GetOrCreate(sessions, sid, now)
         IN  /\ sessions' = ss1
             /\ order' = OrderAfterGetOrCreate(sessions, order, sid)
             /\ ret' = [op |-> "list_endpoints", sid |-> sid, success |-> TRUE,
                        endpoints |-> {ss1[sid].endpoints[k] :
                                          k \in DOMAIN ss1[sid].endpoints}]
             /\ UNCHANGED <<cleanupInterval, hubVars, now, pending, served, regVars>>

\* clear_endpoints: one entry when method and path are both given, else all
MCPClearEndpoints(sid, method, path) ==
    IF Falsy(sid)
    THEN ToolFails("clear_endpoints", sid, "Missing required field")
    ELSE LET ss1 == GetOrCreate(sessions, sid, now)
             key == MakeKey(method, path)
             one == ~Falsy(method) /\ ~Falsy(path)
         IN  /\ sessions' = [ss1 EXCEPT ![sid].endpoints =
                     IF one THEN Without(@, {key}) ELSE << >>]
             /\ order' = OrderAfterGetOrCreate(sessions, order, sid)
             /\ served' = IF one THEN Without(served, {<<sid, key>>})
                          ELSE ServedAfterDelete(served, {sid})
             /\ ret' = [op |-> "clear_endpoints", sid |-> sid, success |-> TRUE]
             /\ UNCHANGED <<cleanupInterval, hubVars, now, pending, regVars>>

\* delete_session
MCPDeleteSession(sid) ==
    IF Falsy(sid)
    THEN ToolFails("delete_session", sid, "Missing required field")
    ELSE /\ sessions' = SessionsAfterDelete(sessions, {sid})
         /\ order' = RemoveFromOrder(order, {sid})
         /\ channels' = ChannelsAfterDelete(sessions, channels, {sid})
         /\ served' = ServedAfterDelete(served, {sid})
         /\ ret' = IF sid \in DOMAIN sessions
                   THEN [op |-> "delete_session", sid |-> sid, success |-> TRUE]
                   ELSE [op |-> "delete_session", sid |-> sid, success |-> FALSE,
                         error |-> "Session not found"]
         /\ UNCHANGED <<cleanupInterval, connections, now, pending, regVars>>

\* get_request_history: const { sessionId, limit = 100 } = args
MCPGetRequestHistory(sid, hasLimit, n) ==
    IF Falsy(sid)
    THEN ToolFails("get_request_history", sid, "Missing required field")
    ELSE LET ss1 == GetOrCreate(sessions, sid, now)
             limit == IF hasLimit THEN n ELSE DefaultLimit
         IN  /\ sessions' = ss1
             /\ order' = OrderAfterGetOrCreate(sessions, order, sid)
             /\ ret' = [op |-> "get_request_history", sid |-> sid,
                        success |-> TRUE, limit |-> limit,
                        stored |-> ss1[sid].requestHistory,
                        records |-> HistorySlice(ss1[sid].requestHistory, limit)]
             /\ UNCHANGED <<cleanupInterval, hubVars, now, pending, served, regVars>>

\* send_websocket_action (action is present)
MCPSendAction(sid, action, params) ==
    IF Falsy(sid)
    THEN ToolFails("send_websocket_action", sid, "Missing required fields")
    ELSE /\ channels' = SendTo(connections, channels, sid,
                               ActionMessage(action, params))
         /\ ret' = IF IsConnected(connections, sid)
                   THEN [op |-> "send_websocket_action", sid |-> sid,
                         success |-> TRUE]
                   ELSE [op |-> "send_websocket_action", sid |-> sid,
                         success |-> FALSE, error |-> "No active connection"]
         /\ UNCHANGED <<storeVars, connections, now, pending, served, regVars>>

\* send_websocket_data
MCPSendData(sid, data) ==
    IF Falsy(sid) \/ data = Undefined
    THEN ToolFails("send_websocket_data", sid, "Missing required fields")
    ELSE /\ channels' = SendTo(connections, channels, sid, DataMessage(data))
         /\ ret' = IF IsConnected(connections, sid)
                   THEN [op |-> "send_websocket_data", sid |-> sid,
                         success |-> TRUE]
                   ELSE [op |-> "send_websocket_data", sid |-> sid,
                         success |-> FALSE, error |-> "No active connection"]
         /\ UNCHANGED <<storeVars, connections, now, pending, served, regVars>>

\* ------------------------------------------------------------------ expiry
\* variant: a session expires as soon as its age reaches ttl
IsExpiredAtTtl(session, t, ttl) == t - session.lastActivityAt >= ttl

\* variant: no age is old enough to expire
NeverExpired(session, t, ttl) == FALSE

\* age > this.config.ttl
IsExpired(session, t, ttl) == t - session.lastActivityAt > ttl

\* the setInterval callback: SessionManager.cleanupExpired
CleanupExpired ==
    LET expired == {id \in DOMAIN sessions : IsExpired(sessions[id], now, TTL)}
    IN  /\ cleanupInterval
        /\ sessions' = SessionsAfterDelete(sessions, expired)
        /\ order' = RemoveFromOrder(order, expired)
        /\ channels' = ChannelsAfterDelete(sessions, channels, expired)
        /\ served' = ServedAfterDelete(served, expired)
        /\ ret' = [op |-> "cleanupExpired", removed |-> expired]
        /\ UNCHANGED <<cleanupInterval, connections, now, pending, regVars>>

\* time passes
Tick ==
    /\ now < MaxTime
    /\ now' = now + 1
    /\ UNCHANGED <<storeVars, hubVars, pending, served, regVars, ret>>

\* SessionManager.destroy (the server's onClose hook): the sweep timer is
\* cleared and every session is deleted
Destroy ==
    /\ cleanupInterval' = FALSE
    /\ sessions' = SessionsAfterDelete(sessions, DOMAIN sessions)
    /\ order' = RemoveFromOrder(order, DOMAIN sessions)
    /\ channels' = ChannelsAfterDelete(sessions, channels, DOMAIN sessions)
    /\ served' = ServedAfterDelete(served, DOMAIN sessions)
    /\ ret' = [op |-> "destroy"]
    /\ UNCHANGED <<connections, now, pending, regVars>>

\* ---------------------------------------------------------- specifications
\* room left in the recorded history of a session
HistoryRoom(sid) ==
    sid \in DOMAIN sessions => Len(sessions[sid].requestHistory) < MaxHistory

\* messages written so far to the first n sockets
RECURSIVE Written(_)
Written(n) == IF n = 0 THEN 0 ELSE Len(channels[n].sent) + Written(n - 1)

\* room left for one more message
WriteRoom == Written(Len(channels)) < MaxWrites

\* calls left on a key of the stand-alone registry
CallRoom(method, path) ==
    MakeKey(method, path) \in DOMAIN registry
        => registry[MakeKey(method, path)].callCount < MaxCalls

Next ==
    \/ \E s \in SessionIds, m \in Methods, p \in Paths :
            HistoryRoom(s) /\ DataPlaneRequest(s, m, p)
    \/ \E s \in SessionIds, m \in Methods, p \in Paths : Deliver(s, m, p)
    \/ \E s \in SessionIds, m \in Methods, p \in Paths :
            HistoryRoom(s) /\ Dispatch(s, m, p)
    \/ \E s \in SessionIds, m \in Methods, p \in Paths, rs \in ResponseLists :
            HTTPConfigure(s, m, p, rs)
    \/ \E s \in SessionIds, m \in Methods, p \in Paths : HTTPClearEndpoint(s, m, p)
    \/ \E s \in SessionIds : HTTPClearAll(s)
    \/ \E s \in SessionIds : HTTPListEndpoints(s)
    \/ \E s \in SessionIds : HTTPDeleteSession(s)
    \/ \E s \in SessionIds, a \in ActionNames, pv \in ParamValues :
            WriteRoom /\ HTTPSendAction(s, a, pv)
    \/ \E s \in SessionIds, d \in DataValues : WriteRoom /\ HTTPSendData(s, d)
    \/ \E s \in SessionIds : Len(channels) < MaxChannels /\ Handshake(s)
    \/ \E c \in DOMAIN channels : SocketClose(c)
    \/ CleanupExpired
    \/ Tick
    \/ \E m \in Methods, p \in Paths, rs \in ResponseLists : RegConfigure(m, p, rs)
    \/ \E m \in Methods, p \in Paths : CallRoom(m, p) /\ RegGetNextResponse(m, p)
    \/ \E m \in Methods, p \in Paths : RegClear(m, p)
    \/ \E s \in SessionIds, h \in BOOLEAN, n \in Limits : HTTPGetRequests(s, h, n)
    \/ \E s \in ToolSessionIds, m \in Methods, p \in Paths, rs \in ResponseLists :
            MCPConfigureEndpoint(s, m, p, JsArray(rs))
    \/ \E s \in ToolSessionIds : MCPDeleteSession(s)
    \/ \E s \in ToolSessionIds, h \in BOOLEAN, n \in Limits :
            MCPGetRequestHistory(s, h, n)
    \/ \E s \in ToolSessionIds, a \in ActionNames, pv \in ParamValues :
            WriteRoom /\ MCPSendAction(s, a, pv)
    \/ \E s \in ToolSessionIds, d \in DataValues \cup {Undefined} :
            WriteRoom /\ MCPSendData(s, d)
    \/ Destroy
    \/ HTTPListSessions
    \/ MCPListSessions
    \/ \E s \in SessionIds : UpdateActivityCall(s)
    \/ \E s \in ToolSessionIds : MCPListEndpoints(s)
    \/ \E s \in ToolSessionIds, m \in Methods \cup {""}, p \in Paths \cup {""} :
            MCPClearEndpoints(s, m, p)
    \/ \E m \in Methods, p \in Paths : RegGetCall(m, p)
    \/ RegList
    \/ RegClearAll

Spec == Init /\ [][Next]_vars

\* One endpoint key of one session, and the same key of a stand-alone
\* registry: configure, serve, clear.
NextSeq ==
    \/ HistoryRoom("s1") /\ DataPlaneRequest("s1", "GET", "/api/test")
    \/ \E rs \in SeqLists : HTTPConfigure("s1", "get", "/api/test", rs)
    \/ HTTPClearEndpoint("s1", "GET", "/api/test")
    \/ \E rs \in SeqLists : RegConfigure("get", "/api/test", rs)
    \/ CallRoom("GET", "/api/test") /\ RegGetNextResponse("GET", "/api/test")
    \/ RegClear("GET", "/api/test")

SpecSeq == Init /\ [][NextSeq]_vars

\* Requests to one key wait for the event loop while others are delivered
\* and the key is configured or cleared.
NextConc ==
    \/ Deliver("s1", "GET", "/api/test")
    \/ HistoryRoom("s1") /\ Dispatch("s1", "GET", "/api/test")
    \/ HTTPConfigure("s1", "GET", "/api/test", <<R500, R200>>)
    \/ HTTPClearEndpoint("s1", "GET", "/api/test")

SpecConc == Init /\ [][NextConc]_vars

\* Two sessions and the same key in each: configure, clear and requests.
IsoMethods == {"GET"}
IsoPaths == {"/api/test"}
IsoLists == {<<R200>>}

NextIso ==
    \/ \E s \in SessionIds, m \in IsoMethods, p \in IsoPaths :
            HistoryRoom(s) /\ DataPlaneRequest(s, m, p)
    \/ \E s \in SessionIds, m \in IsoMethods, p \in IsoPaths, rs \in IsoLists :
            HTTPConfigure(s, m, p, rs)
    \/ \E s \in SessionIds, m \in IsoMethods, p \in IsoPaths :
            HTTPClearEndpoint(s, m, p)
    \/ \E s \in SessionIds : HTTPClearAll(s)

SpecIso == Init /\ [][NextIso]_vars

\* Two sessions age while requests refresh them and the sweep timer fires.
NextSweep ==
    \/ \E s \in SessionIds : HistoryRoom(s) /\ DataPlaneRequest(s, "GET", "/api/test")
    \/ CleanupExpired
    \/ Tick

SpecSweep == Init /\ [][NextSweep]_vars

\* Sockets of one session are accepted and closed while the control plane
\* sends to it, deletes the session and creates it again.
HubSessions == {"s1"}
HubParams == {Undefined, JsObject("\"reason\":\"t\"")}
HubData == {JsString("hello")}

NextHub ==
    \/ \E s \in HubSessions : Len(channels) < MaxChannels /\ Handshake(s)
    \/ \E c \in DOMAIN channels : SocketClose(c)
    \/ \E s \in HubSessions, a \in ActionNames, pv \in HubParams :
            WriteRoom /\ HTTPSendAction(s, a, pv)
    \/ \E s \in HubSessions, d \in HubData : WriteRoom /\ HTTPSendData(s, d)
    \/ \E s \in HubSessions : HTTPDeleteSession(s)
    \/ \E s \in HubSessions : HTTPListEndpoints(s)

SpecHub == Init /\ [][NextHub]_vars

\* One client sends request after request to one key, which the controller
\* has configured beforehand or not at all.
LongRoom(sid, method, path) ==
    sid \in DOMAIN sessions =>
        /\ Len(sessions[sid].requestHistory) < MaxLongRun
        /\ MakeKey(method, path) \in DOMAIN sessions[sid].endpoints =>
              sessions[sid].endpoints[MakeKey(method, path)].callCount < MaxLongRun

NextLong ==
    \/ "s1" \notin DOMAIN sessions /\ HTTPConfigure("s1", "GET", "/api/test", <<R200>>)
    \/ LongRoom("s1", "GET", "/api/test") /\ DataPlaneRequest("s1", "GET", "/api/test")

SpecLong == Init /\ [][NextLong]_vars

\* One session over time: it is created by a request, a configuration or a
\* query, queried again later, and deleted.
StoreLists == {<< >>, <<R500, R200>>}

NextStore ==
    \/ Tick
    \/ HistoryRoom("s1") /\ DataPlaneRequest("s1", "GET", "/api/test")
    \/ \E rs \in StoreLists : HTTPConfigure("s1", "get", "/api/test", rs)
    \/ HTTPListEndpoints("s1")
    \/ HTTPGetRequests("s1", FALSE, 0)
    \/ HTTPDeleteSession("s1")

SpecStore == Init /\ [][NextStore]_vars

\* One key configured through the HTTP control plane and through the MCP
\* tool, with and without responses and required fields, and then requested.
NextConfig ==
    \/ \E rs \in StoreLists : HTTPConfigure("s1", "get", "/api/test", rs)
    \/ \E s \in {"s1", ""}, m \in {"GET", ""}, p \in {"/api/test", ""},
          rs \in StoreLists : MCPConfigureEndpoint(s, m, p, JsArray(rs))
    \/ HistoryRoom("s1") /\ DataPlaneRequest("s1", "GET", "/api/test")
    \/ HTTPClearEndpoint("s1", "GET", "/api/test")
    \/ HTTPListEndpoints("s1")

SpecConfig == Init /\ [][NextConfig]_vars

\* The sockets of one session with sends and deletes through the HTTP
\* control plane and through the MCP tools.
NextHubTools ==
    \/ NextHub
    \/ \E a \in ActionNames, pv \in HubParams :
            WriteRoom /\ MCPSendAction("s1", a, pv)
    \/ \E d \in HubData : WriteRoom /\ MCPSendData("s1", d)
    \/ MCPDeleteSession("s1")

SpecHubTools == Init /\ [][NextHubTools]_vars

\* Every route that names a session id, on one id that comes and goes.
NextAuto ==
    \/ HistoryRoom("s1") /\ DataPlaneRequest("s1", "GET", "/api/test")
    \/ Len(channels) < MaxChannels /\ Handshake("s1")
    \/ HTTPConfigure("s1", "get", "/api/test", <<R200>>)
    \/ HTTPListEndpoints("s1")
    \/ HTTPClearEndpoint("s1", "GET", "/api/test")
    \/ HTTPClearAll("s1")
    \/ HTTPGetRequests("s1", FALSE, 0)
    \/ HTTPDeleteSession("s1")
    \/ WriteRoom /\ HTTPSendAction("s1", JsString("logout"), Undefined)
    \/ WriteRoom /\ HTTPSendData("s1", JsString("hello"))

SpecAuto == Init /\ [][NextAuto]_vars

\* The life of one session: requests and configuration, sockets that open
\* and close, and the three ways it ends.
LifeRoom(sid) ==
    sid \in DOMAIN sessions => Len(sessions[sid].requestHistory) < MaxLifeHistory

NextLife ==
    \/ now <= TTL /\ Tick
    \/ LifeRoom("s1") /\ DataPlaneRequest("s1", "GET", "/api/test")
    \/ HTTPConfigure("s1", "get", "/api/test", <<R200>>)
    \/ Len(channels) < MaxChannels /\ Handshake("s1")
    \/ \E c \in DOMAIN channels : SocketClose(c)
    \/ HTTPDeleteSession("s1")
    \/ CleanupExpired
    \/ Destroy

SpecLife == Init /\ [][NextLife]_vars

\* A registry with several endpoints that share a method or a path.
KeyMethods == {"GET", "POST"}
KeyPaths == {"/api/users", "/api/users/123"}

NextKeys ==
    \/ \E m \in KeyMethods, p \in KeyPaths : RegConfigure(m, p, <<R500, R200>>)
    \/ \E m \in KeyMethods, p \in KeyPaths :
            CallRoom(m, p) /\ RegGetNextResponse(m, p)
    \/ \E m \in KeyMethods, p \in KeyPaths : RegClear(m, p)

SpecKeys == Init /\ [][NextKeys]_vars

\* Endpoints of one session configured under methods in either case, and
\* under a method that holds a colon, by HTTP and by the MCP tool.
ConfiguredPairs == {<<"get", "/b">>, <<"POST", "/b">>, <<"GET:/A", "/b">>}
RequestedPairs == {<<"GET", "/b">>, <<"GET", "/b/">>, <<"GET", "/A:/b">>}

NextCase ==
    \/ \E mp \in ConfiguredPairs : HTTPConfigure("s1", mp[1], mp[2], <<R200>>)
    \/ MCPConfigureEndpoint("s1", "get", "/b", JsArray(<<R201>>))
    \/ \E mp \in RequestedPairs :
            HistoryRoom("s1") /\ DataPlaneRequest("s1", mp[1], mp[2])
    \/ HTTPClearEndpoint("s1", "get", "/b")

SpecCase == Init /\ [][NextCase]_vars

\* The history of one session, queried with and without a limit through the
\* HTTP route and the MCP tool.
NextQuery ==
    \/ HistoryRoom("s1") /\ DataPlaneRequest("s1", "GET", "/api/test")
    \/ \E rs \in SeqLists : HTTPConfigure("s1", "get", "/api/test", rs)
    \/ \E h \in BOOLEAN, n \in Limits : HTTPGetRequests("s1", h, n)
    \/ \E h \in BOOLEAN, n \in Limits : MCPGetRequestHistory("s1", h, n)

SpecQuery == Init /\ [][NextQuery]_vars

\* A session with an endpoint, a history and a socket is touched as time
\* passes; so is its id while it has no session.
NextTouch ==
    \/ now <= TTL /\ Tick
    \/ UpdateActivityCall("s1")
    \/ LifeRoom("s1") /\ DataPlaneRequest("s1", "GET", "/api/test")
    \/ HTTPConfigure("s1", "get", "/api/test", <<R200>>)
    \/ Len(channels) < MaxChannels /\ Handshake("s1")
    \/ HTTPDeleteSession("s1")

SpecTouch == Init /\ [][NextTouch]_vars

\* Two sessions are created, deleted, swept and created again as time
\* passes, and the sessions are listed.
NextList ==
    \/ now <= TTL /\ Tick
    \/ \E s \in SessionIds : HTTPListEndpoints(s)
    \/ \E s \in SessionIds : UpdateActivityCall(s)
    \/ Len(channels) < MaxChannels /\ Handshake("s1")
    \/ \E s \in SessionIds : HTTPDeleteSession(s)
    \/ CleanupExpired
    \/ HTTPListSessions
    \/ MCPListSessions

SpecList == Init /\ [][NextList]_vars

\* One key of a registry and of a session is configured and served, and
\* looked up and listed in between.
NextRead ==
    \/ RegConfigure("get", "/api/test", <<R500, R200>>)
    \/ CallRoom("GET", "/api/test") /\ RegGetNextResponse("GET", "/api/test")
    \/ RegGetCall("GET", "/api/test")
    \/ RegList
    \/ HTTPConfigure("s1", "get", "/api/test", <<R500, R200>>)
    \/ HistoryRoom("s1") /\ DataPlaneRequest("s1", "GET", "/api/test")
    \/ HTTPListEndpoints("s1")
    \/ MCPListEndpoints("s1")

SpecRead == Init /\ [][NextRead]_vars

\* Two keys of a registry and of a session are configured, served and
\* cleared, one at a time and all at once.
ClearMethods == {"GET", "POST"}

NextClear ==
    \/ \E m \in ClearMethods : RegConfigure(m, "/api/test", <<R200>>)
    \/ \E m \in ClearMethods :
            CallRoom(m, "/api/test") /\ RegGetNextResponse(m, "/api/test")
    \/ \E m \in ClearMethods : RegClear(m, "/api/test")
    \/ RegClearAll
    \/ \E m \in ClearMethods : HTTPConfigure("s1", m, "/api/test", <<R200>>)
    \/ \E m \in ClearMethods :
            LifeRoom("s1") /\ DataPlaneRequest("s1", m, "/api/test")
    \/ \E m \in ClearMethods : HTTPClearEndpoint("s1", m, "/api/test")
    \/ HTTPClearAll("s1")
    \/ \E m \in {"GET", ""}, p \in {"/api/test", ""} : MCPClearEndpoints("s1", m, p)

SpecClear == Init /\ [][NextClear]_vars

\* configure_endpoint with and without each of its arguments, on an id with
\* and without a session and a served endpoint.
ToolResponses == {Absent, NotAnArray, JsArray(<< >>), JsArray(<<R500, R200>>)}

NextValidate ==
    \/ \E s \in {"s1", ""}, m \in {"GET", ""}, p \in {"/api/test", ""},
          r \in ToolResponses : MCPConfigureEndpoint(s, m, p, r)
    \/ HTTPConfigure("s1", "get", "/api/test", <<R200>>)
    \/ HistoryRoom("s1") /\ DataPlaneRequest("s1", "GET", "/api/test")
    \/ HTTPDeleteSession("s1")

SpecValidate == Init /\ [][NextValidate]_vars

\* Actions and data of every kind sent to the sockets of one session by
\* HTTP and by the MCP tools.
NextEnvelope ==
    \/ Len(channels) < MaxChannels /\ Handshake("s1")
    \/ \E c \in DOMAIN channels : SocketClose(c)
    \/ \E a \in ActionNames, pv \in ParamValues :
            WriteRoom /\ HTTPSendAction("s1", a, pv)
    \/ \E d \in DataValues \cup {Undefined} : WriteRoom /\ HTTPSendData("s1", d)
    \/ \E a \in ActionNames, pv \in ParamValues :
            WriteRoom /\ MCPSendAction("s1", a, pv)
    \/ \E d \in DataValues \cup {Undefined} : WriteRoom /\ MCPSendData("s1", d)

SpecEnvelope == Init /\ [][NextEnvelope]_vars

\* The sockets of two sessions: handshakes, sends and closes.
NextHubPair ==
    \/ \E s \in SessionIds : Len(channels) < MaxChannels /\ Handshake(s)
    \/ \E c \in DOMAIN channels : SocketClose(c)
    \/ \E s \in SessionIds :
            WriteRoom /\ HTTPSendAction(s, JsString("logout"), Undefined)
    \/ \E s \in SessionIds : WriteRoom /\ HTTPSendData(s, JsString("hello"))

SpecHubPair == Init /\ [][NextHubPair]_vars

\* the session, if it exists, has recorded no request yet
NoHistory(sid) ==
    sid \in DOMAIN sessions => sessions[sid].requestHistory = << >>

\* no message has gone out on any channel yet
NothingWritten == Written(Len(channels)) = 0

\* One session whose channel comes and goes while every other operation of
\* the server runs against it: pushes, configuration, requests, deletion,
\* the sweep and the shutdown.
NextFrame ==
    \/ now <= TTL /\ Tick
    \/ NoHistory("s1") /\ DataPlaneRequest("s1", "GET", "/api/test")
    \/ NoHistory("s1") /\ HTTPConfigure("s1", "get", "/api/test", <<R200>>)
    \/ NoHistory("s1") /\ HTTPClearAll("s1")
    \/ Len(channels) < MaxChannels /\ Handshake("s1")
    \/ \E c \in DOMAIN channels : SocketClose(c)
    \/ NothingWritten /\ HTTPSendAction("s1", JsString("logout"), Undefined)
    \/ NothingWritten /\ HTTPSendData("s1", JsString("hello"))
    \/ HTTPDeleteSession("s1")
    \/ CleanupExpired
    \/ Destroy

SpecFrame == Init /\ [][NextFrame]_vars

\* A session is configured and requested while time passes, so that requests
\* reach it before and after its idle time has exceeded the ttl, with the
\* sweep running at any moment in between.
NextLazy ==
    \/ Tick
    \/ HTTPConfigure("s1", "get", "/api/test", <<R500, R200>>)
    \/ HistoryRoom("s1") /\ DataPlaneRequest("s1", "GET", "/api/test")
    \/ CleanupExpired

SpecLazy == Init /\ [][NextLazy]_vars

\* the server and the stand-alone registry class are separate objects: a
\* run exercises one of them
RegistryUnused == registry = << >>
ServerUnused == sessions = << >> /\ channels = << >>

\* Two keys of one session and of a stand-alone registry: one is configured
\* with a single response and requested past its end, the other is
\* configured through the tool or not at all; in between the endpoints are
\* read and the WebSocket side is used.
NextCount ==
    \/ RegistryUnused /\ HTTPConfigure("s1", "get", "/api/test", <<R200>>)
    \/ RegistryUnused
        /\ MCPConfigureEndpoint("s1", "POST", "/api/test", JsArray(<<R500, R200>>))
    \/ \E m \in {"GET", "POST"} :
            RegistryUnused /\ HistoryRoom("s1") /\ DataPlaneRequest("s1", m, "/api/test")
    \/ RegistryUnused /\ HTTPListEndpoints("s1")
    \/ RegistryUnused /\ Len(channels) < MaxChannels /\ Handshake("s1")
    \/ RegistryUnused /\ NothingWritten /\ HTTPSendData("s1", JsString("hello"))
    \/ ServerUnused /\ RegConfigure("get", "/api/test", <<R200>>)
    \/ \E m \in {"GET", "POST"} :
            ServerUnused /\ CallRoom(m, "/api/test") /\ RegGetNextResponse(m, "/api/test")
    \/ ServerUnused /\ RegGetCall("GET", "/api/test")
    \/ ServerUnused /\ RegList

SpecCount == Init /\ [][NextCount]_vars

\* The same endpoint operations reach one key through the three places that
\* implement them: the EndpointRegistry class, the HTTP routes and the MCP
\* tools (both working on session.endpoints).
AgreeLists == {<< >>, <<R500, R200>>}

NextAgree ==
    \/ \E rs \in AgreeLists : RegConfigure("get", "/api/test", rs)
    \/ CallRoom("GET", "/api/test") /\ RegGetNextResponse("GET", "/api/test")
    \/ RegClear("GET", "/api/test")
    \/ RegClearAll
    \/ \E rs \in AgreeLists : HTTPConfigure("s1", "get", "/api/test", rs)
    \/ HistoryRoom("s1") /\ DataPlaneRequest("s1", "GET", "/api/test")
    \/ HTTPClearEndpoint("s1", "GET", "/api/test")
    \/ HTTPClearAll("s1")
    \/ \E rs \in AgreeLists :
            MCPConfigureEndpoint("s1", "get", "/api/test", JsArray(rs))
    \/ \E m \in {"GET", ""} : MCPClearEndpoints("s1", m, "/api/test")

SpecAgree == Init /\ [][NextAgree]_vars

\* Every route of the control plane and every tool is used on one session
\* as time passes, next to requests of the data plane.
NextActivity ==
    \/ now <= TTL /\ Tick
    \/ NoHistory("s1") /\ DataPlaneRequest("s1", "GET", "/api/test")
    \/ HTTPConfigure("s1", "get", "/api/test", <<R200>>)
    \/ HTTPListEndpoints("s1")
    \/ HTTPClearEndpoint("s1", "GET", "/api/test")
    \/ HTTPClearAll("s1")
    \/ HTTPGetRequests("s1", FALSE, 0)
    \/ HTTPListSessions
    \/ Len(channels) < MaxChannels /\ Handshake("s1")
    \/ NothingWritten /\ HTTPSendAction("s1", JsString("logout"), Undefined)
    \/ NothingWritten /\ HTTPSendData("s1", JsString("hello"))
    \/ MCPConfigureEndpoint("s1", "get", "/api/test", JsArray(<<R200>>))
    \/ MCPListSessions
    \/ MCPListEndpoints("s1")
    \/ MCPClearEndpoints("s1", "GET", "/api/test")
    \/ MCPGetRequestHistory("s1", FALSE, 0)
    \/ NothingWritten /\ MCPSendAction("s1", JsString("logout"), Undefined)
    \/ NothingWritten /\ MCPSendData("s1", JsString("hello"))

SpecActivity == Init /\ [][NextActivity]_vars

\* Sessions are created and refreshed early enough for their expiry to fall
\* within the modelled time, then left alone while the clock and the sweep
\* timer keep running, unless destroy cancels the timer.
ExpiryInView == now + TTL < MaxTime

NextExpire ==
    \/ Tick
    \/ \E s \in SessionIds :
            ExpiryInView /\ NoHistory(s) /\ DataPlaneRequest(s, "GET", "/api/test")
    \/ \E s \in SessionIds :
            ExpiryInView /\ HTTPConfigure(s, "get", "/api/test", <<R200>>)
    \/ \E s \in SessionIds : ExpiryInView /\ HTTPListEndpoints(s)
    \/ CleanupExpired
    \/ Destroy

\* time passes, and an armed setInterval timer keeps calling cleanupExpired
SpecExpire ==
    /\ Init
    /\ [][NextExpire]_vars
    /\ WF_vars(Tick)
    /\ WF_vars(CleanupExpired)

\* Requests reach a key that is configured with responses, configured with
\* none, or not configured at all, in a session and in a stand-alone
\* registry.
MissPaths == {"/api/test", "/other"}

NextMiss ==
    \/ now <= TTL /\ Tick
    \/ \E rs \in StoreLists :
            RegistryUnused /\ HTTPConfigure("s1", "get", "/api/test", rs)
    \/ \E p \in MissPaths :
            RegistryUnused /\ HistoryRoom("s1") /\ DataPlaneRequest("s1", "GET", p)
    \/ RegistryUnused /\ HTTPDeleteSession("s1")
    \/ \E rs \in StoreLists : ServerUnused /\ RegConfigure("get", "/api/test", rs)
    \/ \E p \in MissPaths :
            ServerUnused /\ CallRoom("GET", p) /\ RegGetNextResponse("GET", p)

SpecMiss == Init /\ [][NextMiss]_vars

\* ------------------------------------------------------------------ claims
\* the replies logged for one key follow 0, 1, ..., n-1, n-1, ... of responses
FollowsSequence(log, responses) ==
    \A i \in 1..Len(log) :
        /\ log[i].index = Min(i - 1, Len(responses) - 1)
        /\ log[i].response = responses[Min(i - 1, Len(responses) - 1) + 1]

\* C1: for an endpoint configured with n >= 1 responses, the i-th reply since
\* its configuration (data-plane request, or getNextResponse of the registry)
\* is the response at index min(i-1, n-1): 0, 1, ..., n-1 and then the last
\* response again and again.
C1_SequenceThenLast ==
    /\ \A k \in DOMAIN served :
          (k[1] \in DOMAIN sessions /\ k[2] \in DOMAIN sessions[k[1]].endpoints)
              => FollowsSequence(served[k], sessions[k[1]].endpoints[k[2]].responses)
    /\ \A k \in DOMAIN regServed :
          k \in DOMAIN registry => FollowsSequence(regServed[k], registry[k].responses)

\* a two-response endpoint has answered more often than it has responses,
\* on the data plane and on the registry
C1_Witness ==
    /\ \E k \in DOMAIN served :
          /\ Len(sessions[k[1]].endpoints[k[2]].responses) = 2
          /\ Len(served[k]) > 2
    /\ \E k \in DOMAIN regServed :
          /\ Len(registry[k].responses) = 2
          /\ Len(regServed[k]) > 2

\* C2: configuring a key again, whatever its counter, replaces the response
\* sequence and sets the counter to zero, and the first data-plane request
\* after it is answered with index 0 of the new sequence.
C2_ReconfigureResets ==
    [][\A s \in {"s1"}, m \in {"GET", "get"}, p \in {"/api/test"} :
          /\ \A rs \in SeqLists :
                HTTPConfigure(s, m, p, rs) =>
                    sessions'[s].endpoints[MakeKey(m, p)] =
                        [method |-> m, path |-> p, responses |-> rs, callCount |-> 0]
          /\ ( /\ DataPlaneRequest(s, m, p)
               /\ <<s, MakeKey(m, p)>> \in DOMAIN served
               /\ served[<<s, MakeKey(m, p)>>] = << >>
               /\ Len(sessions[s].endpoints[MakeKey(m, p)].responses) > 0 )
             => /\ ret'.index = 0
                /\ ret'.status = sessions[s].endpoints[MakeKey(m, p)].responses[1].status
                /\ ret'.body = sessions[s].endpoints[MakeKey(m, p)].responses[1].body
      ]_vars

\* a key whose counter had advanced was configured again with another
\* sequence and has answered once since
C2_Witness ==
    \E k \in DOMAIN served :
        /\ Len(served[k]) = 1
        /\ Len(sessions[k[1]].requestHistory) = 3
        /\ sessions[k[1]].requestHistory[1].status = 500
        /\ sessions[k[1]].requestHistory[2].status = 200
        /\ sessions[k[1]].requestHistory[3].status = 200
        /\ sessions[k[1]].endpoints[k[2]].responses = <<R200>>

\* C3: requests delivered concurrently to one configured key each read the
\* counter and increment it in one step: the counter values the replies since
\* the last configure were chosen from are 0, 1, 2, ... with none read twice,
\* and the counter equals the number of those replies.
C3_AtomicReadIncrement ==
    \A k \in DOMAIN served :
        (k[1] \in DOMAIN sessions /\ k[2] \in DOMAIN sessions[k[1]].endpoints) =>
            /\ \A i \in 1..Len(served[k]) : served[k][i].count = i - 1
            /\ sessions[k[1]].endpoints[k[2]].callCount = Len(served[k])

\* of two requests to the key that waited together, one has been handled as
\* the third reply and the other still waits
C3_Witness ==
    /\ ret.op = "request"
    /\ ret.configured
    /\ ret.count = 2
    /\ \E r \in BagToSet(pending) : r[1] = ret.sid /\ MakeKey(r[2], r[3]) = ret.key

\* what a session holds for the client: its endpoints, counters and history
Owned(ss, sid) ==
    IF sid \in DOMAIN ss
    THEN <<TRUE, ss[sid].endpoints, ss[sid].requestHistory>>
    ELSE <<FALSE, << >>, << >>>>

\* an operation of the endpoint surface on session a
OperatesOn(a) ==
    \E m \in IsoMethods, p \in IsoPaths :
        \/ DataPlaneRequest(a, m, p)
        \/ HTTPClearEndpoint(a, m, p)
        \/ HTTPClearAll(a)
        \/ \E rs \in IsoLists : HTTPConfigure(a, m, p, rs)

\* C4: configure, clear and data-plane requests on session A leave the
\* endpoint configurations, counters and history of every other session B
\* as they were, and a request on B for a key B has not configured is
\* answered not-found whatever A has configured for it.
C4_SessionsIsolated ==
    [][\A a \in SessionIds :
          /\ OperatesOn(a) =>
                \A b \in SessionIds \ {a} : Owned(sessions', b) = Owned(sessions, b)
          /\ \A m \in IsoMethods, p \in IsoPaths :
                ( /\ DataPlaneRequest(a, m, p)
                  /\ (a \in DOMAIN sessions =>
                         MakeKey(m, p) \notin DOMAIN sessions[a].endpoints) )
                => /\ ret'.status = NotFound
                   /\ ~ret'.configured
      ]_vars

\* s2 is answered not-found for a key that s1 has configured and served
C4_Witness ==
    /\ ret.op = "request"
    /\ ret.sid = "s2"
    /\ ret.status = NotFound
    /\ "s1" \in DOMAIN sessions
    /\ ret.key \in DOMAIN sessions["s1"].endpoints
    /\ sessions["s1"].endpoints[ret.key].callCount > 0
    /\ ret.key \notin DOMAIN sessions["s2"].endpoints

\* C5: the sweep run at time now with time-to-live TTL removes exactly the
\* sessions with now - lastActivityAt > TTL (a session whose age equals TTL
\* stays) and leaves every other session as it was.
C5_SweepRemovesExactlyExpired ==
    [][CleanupExpired =>
          /\ DOMAIN sessions' =
                {id \in DOMAIN sessions : ~(now - sessions[id].lastActivityAt > TTL)}
          /\ \A id \in DOMAIN sessions' : sessions'[id] = sessions[id]
      ]_vars

\* a sweep has removed one session and kept another whose age is exactly TTL,
\* with its history
C5_Witness ==
    /\ ret.op = "cleanupExpired"
    /\ ret.removed # {}
    /\ \E id \in DOMAIN sessions :
          /\ now - sessions[id].lastActivityAt = TTL
          /\ Len(sessions[id].requestHistory) > 0

\* what one send does: nothing but a failure result when the hub has no
\* socket for sid; else success and one more text on that socket, which
\* parses to the envelope
SendsOnce(sid, envelope) ==
    IF ~IsConnected(connections, sid)
    THEN /\ ~ret'.ok
         /\ channels' = channels
    ELSE /\ ret'.ok
         /\ Len(channels'[connections[sid]].sent) =
                Len(channels[connections[sid]].sent) + 1
         /\ SubSeq(channels'[connections[sid]].sent, 1,
                   Len(channels[connections[sid]].sent)) =
                channels[connections[sid]].sent
         /\ SameObject(JsonParse(channels'[connections[sid]].sent[
                           Len(channels'[connections[sid]].sent)]),
                       envelope)
         /\ \A c \in DOMAIN channels \ {connections[sid]} : channels'[c] = channels[c]

\* C6: a send to a session with no registered connection fails as
\* not-connected; with a connection registered the same call succeeds and the
\* registered socket receives exactly one write, whose parsed content equals
\* the envelope {type, action, params} or {type, data} that was given.
C6_SendNeedsConnection ==
    [][\A s \in HubSessions :
          /\ \A a \in ActionNames, pv \in HubParams :
                HTTPSendAction(s, a, pv) =>
                    SendsOnce(s, [type |-> JsString("action"), action |-> a,
                                  params |-> pv])
          /\ \A d \in HubData :
                HTTPSendData(s, d) =>
                    SendsOnce(s, [type |-> JsString("data"), data |-> d])
      ]_vars

\* an action with parameters has just been written, as the only message, to
\* the socket registered for its session
C6_Witness ==
    /\ ret.op = "sendAction"
    /\ ret.ok
    /\ IsConnected(connections, ret.sid)
    /\ channels[connections[ret.sid]].sent =
          << <<(<<"type", "\"action\"">>), (<<"action", "\"logout\"">>),
               (<<"params", "{\"reason\":\"t\"}">>)>> >>

\* C7: for every live session, the connected flag of listSessions is true
\* exactly when the hub holds an entry for its id.
C7_ConnectedFlagMatchesHub ==
    \A s \in DOMAIN sessions :
        (sessions[s].websocket # Null) = IsConnected(connections, s)

\* C8: once deleteSession has removed a session, the hub no longer reports
\* its id as connected.
C8_DeleteDisconnects ==
    (ret.op = "deleteSession" /\ ret.ok) => ~IsConnected(connections, ret.sid)

\* C9: in every reachable state the request history of every session holds
\* at most 1000 records, whether the appended records are of configured or of
\* unconfigured requests.
C9_HistoryCapped ==
    \A s \in DOMAIN sessions : Len(sessions[s].requestHistory) <= HistoryCap

C11_GetOrCreateIdempotent ==
    [][\A s \in DOMAIN sessions :
          (HTTPListEndpoints(s) \/ HTTPGetRequests(s, FALSE, 0))
          => /\ sessions' = sessions
             /\ order' = order
             /\ Len(SelectSeq(order', LAMBDA x : x = s)) = 1]_vars

\* a session with an endpoint, a served request and an older creation time
\* has just been queried
C11_Witness ==
    /\ ret.op = "listEndpoints"
    /\ "s1" \in DOMAIN sessions
    /\ sessions["s1"].createdAt < now
    /\ sessions["s1"].createdAt < sessions["s1"].lastActivityAt
    /\ Len(sessions["s1"].requestHistory) > 0
    /\ \E k \in DOMAIN sessions["s1"].endpoints :
            sessions["s1"].endpoints[k].callCount > 0

\* C12: a data-plane request appends exactly one record to the history of
\* its session: with no response to serve for the key (nothing configured,
\* or an empty list) the record says 404 and configured = false; otherwise
\* it says configured = true and carries the status of the response that
\* was selected; the records before it are untouched.
C12_OneRecordPerRequest ==
    [][DataPlaneRequest("s1", "GET", "/api/test") =>
        LET old == IF "s1" \in DOMAIN sessions
                   THEN sessions["s1"].requestHistory ELSE << >>
            eps == IF "s1" \in DOMAIN sessions
                   THEN sessions["s1"].endpoints ELSE << >>
            has == /\ "GET:/api/test" \in DOMAIN eps
                   /\ Len(eps["GET:/api/test"].responses) > 0
            new == sessions'["s1"].requestHistory
            rec == new[Len(new)]
        IN  /\ Len(new) = Len(old) + 1
            /\ SubSeq(new, 1, Len(old)) = old
            /\ rec.method = "GET" /\ rec.path = "/api/test"
            /\ rec.timestamp = now
            /\ rec.configured = has
            /\ rec.status = ret'.status
            /\ rec.status =
                 IF has
                 THEN LET c == eps["GET:/api/test"]
                      IN  c.responses[Min(c.callCount, Len(c.responses) - 1) + 1].status
                 ELSE 404]_vars

\* the history holds a 404 record and a served one, and a request has just
\* been answered
C12_Witness ==
    /\ ret.op = "request"
    /\ "s1" \in DOMAIN sessions
    /\ \E i, j \in DOMAIN sessions["s1"].requestHistory :
          /\ sessions["s1"].requestHistory[i].configured
          /\ sessions["s1"].requestHistory[i].status = 500
          /\ ~sessions["s1"].requestHistory[j].configured
          /\ sessions["s1"].requestHistory[j].status = 404

\* C13: every stored endpoint configuration holds at least one response: a
\* configure call with no responses is turned away, by the HTTP control
\* plane as by the MCP tool, before anything is stored.
C13_ResponsesNonEmpty ==
    \A s \in DOMAIN sessions : \A k \in DOMAIN sessions[s].endpoints :
        Len(sessions[s].endpoints[k].responses) > 0

\* nothing is written, no session is created, the hub is as it was
NothingSent ==
    /\ channels' = channels
    /\ connections' = connections
    /\ sessions' = sessions
    /\ order' = order

\* C14: once a socket's close callback has run the hub has no entry for its
\* session; a send (action or data, by HTTP or by MCP tool) to an id with no
\* hub entry, never registered or unregistered, reports not-connected,
\* writes to no socket, not even one registered earlier, creates no session
\* and leaves the hub unchanged.
C14_SendWithoutEntry ==
    [][\A s \in HubSessions :
          /\ \A c \in DOMAIN channels :
                SocketClose(c) /\ channels[c].sid = s => s \notin DOMAIN connections'
          /\ s \notin DOMAIN connections =>
                /\ \A a \in ActionNames, pv \in HubParams :
                      /\ HTTPSendAction(s, a, pv) =>
                            ~ret'.ok /\ ret'.status = 404 /\ NothingSent
                      /\ MCPSendAction(s, a, pv) =>
                            ~ret'.success /\ NothingSent
                /\ \A d \in HubData :
                      /\ HTTPSendData(s, d) =>
                            ~ret'.ok /\ ret'.status = 404 /\ NothingSent
                      /\ MCPSendData(s, d) =>
                            ~ret'.success /\ NothingSent
      ]_vars

\* a send has just failed for a session whose socket was registered,
\* written to and then closed, and whose session is gone
C14_Witness ==
    /\ ret.op \in {"sendAction", "send_websocket_data"}
    /\ ret.sid \notin DOMAIN connections
    /\ ret.sid \notin DOMAIN sessions
    /\ \E c \in DOMAIN channels :
          /\ channels[c].sid = ret.sid
          /\ channels[c].state = "closed"
          /\ Len(channels[c].sent) = 1

\* C15: deleting an id that has a session succeeds and removes it; deleting
\* an id that has none (never created, or deleted before) reports not-found
\* (false), creates no session and leaves the store unchanged; after either
\* the id has no session, so a second delete reports not-found.
C15_DeleteReportsExistence ==
    [][\A s \in HubSessions :
          /\ HTTPDeleteSession(s) =>
                /\ ret'.ok = (s \in DOMAIN sessions)
                /\ ret'.status = IF s \in DOMAIN sessions THEN 204 ELSE 404
          /\ MCPDeleteSession(s) => ret'.success = (s \in DOMAIN sessions)
          /\ HTTPDeleteSession(s) \/ MCPDeleteSession(s) =>
                /\ s \notin DOMAIN sessions'
                /\ DOMAIN sessions' = DOMAIN sessions \ {s}
                /\ \A x \in DOMAIN sessions' : sessions'[x] = sessions[x]
                /\ s \notin DOMAIN sessions =>
                      /\ sessions' = sessions
                      /\ order' = order
                      /\ channels' = channels
                      /\ connections' = connections
      ]_vars

\* a delete has just reported not-found for an id whose session, with its
\* socket, was deleted before
C15_Witness ==
    /\ ret.op \in {"deleteSession", "delete_session"}
    /\ ret.sid \notin DOMAIN sessions
    /\ IF ret.op = "deleteSession" THEN ~ret.ok ELSE ~ret.success
    /\ \E c \in DOMAIN channels :
          channels[c].sid = ret.sid /\ ~channels[c].attached

\* the id has a session, created now
CreatedNow(s) ==
    /\ s \in DOMAIN sessions'
    /\ sessions'[s].id = s
    /\ sessions'[s].createdAt = now
    /\ order' = Append(order, s)

\* C16: on an id that has no session, a data-plane request, a WebSocket
\* handshake, configure, list-endpoints, clear-endpoints and the history
\* query each create the session; delete-session and the two sends do not.
C16_AutoCreateAsymmetry ==
    [][\A s \in {"s1"} : s \notin DOMAIN sessions =>
          /\ DataPlaneRequest(s, "GET", "/api/test") => CreatedNow(s)
          /\ Handshake(s) => CreatedNow(s)
          /\ HTTPConfigure(s, "get", "/api/test", <<R200>>) => CreatedNow(s)
          /\ HTTPListEndpoints(s) => CreatedNow(s)
          /\ HTTPClearEndpoint(s, "GET", "/api/test") => CreatedNow(s)
          /\ HTTPClearAll(s) => CreatedNow(s)
          /\ HTTPGetRequests(s, FALSE, 0) => CreatedNow(s)
          /\ HTTPDeleteSession(s) => sessions' = sessions /\ order' = order
          /\ HTTPSendAction(s, JsString("logout"), Undefined) =>
                sessions' = sessions /\ order' = order
          /\ HTTPSendData(s, JsString("hello")) =>
                sessions' = sessions /\ order' = order
      ]_vars

\* a session that had written to its socket was deleted; its id has a new,
\* empty session and a history query has just been answered
C16_Witness ==
    /\ ret.op = "getRequests"
    /\ "s1" \in DOMAIN sessions
    /\ sessions["s1"] = NewSession("s1", now)
    /\ \E c \in DOMAIN channels :
          /\ channels[c].sid = "s1"
          /\ ~channels[c].attached
          /\ Len(channels[c].sent) = MaxWrites

\* the session of s is the same but for its socket reference
SameButSocket(s) ==
    /\ s \in DOMAIN sessions'
    /\ [sessions'[s] EXCEPT !.websocket = Null] =
       [sessions[s] EXCEPT !.websocket = Null]

\* C17: a session leaves the store only by an explicit delete, by the sweep
\* once its idle time is over the TTL, or by destroy; the close of its
\* socket leaves the session with its endpoints, counters and history as
\* they were, and a later handshake on the id attaches to that same state.
C17_SessionOutlivesSocket ==
    [][/\ \A s \in DOMAIN sessions : s \notin DOMAIN sessions' =>
            \/ HTTPDeleteSession(s)
            \/ CleanupExpired /\ now - sessions[s].lastActivityAt > TTL
            \/ Destroy
       /\ \A c \in DOMAIN channels : SocketClose(c) =>
            /\ order' = order
            /\ \A s \in DOMAIN sessions : SameButSocket(s)
       /\ \A s \in DOMAIN sessions : Handshake(s) =>
            /\ order' = order
            /\ SameButSocket(s)
            /\ sessions'[s].websocket = Len(channels')
      ]_vars

\* the first socket of a session with a served endpoint has closed, and a
\* second handshake, later, has attached to the session
C17_Witness ==
    /\ ret.op = "handshake"
    /\ ret.channel = 2
    /\ channels[1].state = "closed"
    /\ channels[1].attached
    /\ sessions["s1"].websocket = 2
    /\ sessions["s1"].createdAt < now
    /\ Len(sessions["s1"].requestHistory) > 0
    /\ \E k \in DOMAIN sessions["s1"].endpoints :
            sessions["s1"].endpoints[k].callCount > 0

\* C18: configure, getNextResponse and clear on (method, path) leave the
\* entry of every pair with another method or another path as it was,
\* present with its responses and counter or absent; a pair is found by
\* getNextResponse only if it was configured itself.
C18_KeysIndependent ==
    [][\A m \in KeyMethods, p \in KeyPaths :
          /\ (\/ RegConfigure(m, p, <<R500, R200>>)
              \/ RegGetNextResponse(m, p)
              \/ RegClear(m, p))
             => \A m2 \in KeyMethods, p2 \in KeyPaths :
                    (m2 # m \/ p2 # p) =>
                        RegGet(registry', m2, p2) = RegGet(registry, m2, p2)
          /\ RegGetNextResponse(m, p) =>
                ret'.found = (RegGet(registry, m, p) # << >>)
      ]_vars

\* GET /api/users is exhausted, POST /api/users is configured and untouched,
\* and GET /api/users/123 has just been looked up and not found
C18_Witness ==
    /\ ret.op = "registry.getNextResponse"
    /\ ret.key = "GET:/api/users/123"
    /\ ~ret.found
    /\ "GET:/api/users" \in DOMAIN registry
    /\ registry["GET:/api/users"].callCount >= 2
    /\ "POST:/api/users" \in DOMAIN registry
    /\ registry["POST:/api/users"].callCount = 0

\* the two methods are equal when letter case is ignored
SameMethod(m1, m2) == m1 = m2 \/ {m1, m2} = {"get", "GET"}

\* the session has an endpoint that was configured under a pair with the
\* same method, ignoring case, and the identical path
HasEndpointFor(method, path) ==
    /\ "s1" \in DOMAIN sessions
    /\ \E k \in DOMAIN sessions["s1"].endpoints :
          /\ SameMethod(sessions["s1"].endpoints[k].method, method)
          /\ sessions["s1"].endpoints[k].path = path

\* the methods in use that hold a colon
HasColon(method) == method = "GET:/A"

\* no endpoint of the session was configured under a method with a colon
NoColonConfigured ==
    "s1" \in DOMAIN sessions =>
        \A k \in DOMAIN sessions["s1"].endpoints :
            ~HasColon(sessions["s1"].endpoints[k].method)

\* C19 as stated: a request (method, path) is served by an endpoint exactly
\* when one was configured under a pair with the same method, ignoring
\* case, and the identical path.
C19_SharedExactlyWhenSamePair ==
    [][\A mp \in RequestedPairs :
          DataPlaneRequest("s1", mp[1], mp[2]) =>
              ret'.configured = HasEndpointFor(mp[1], mp[2])]_vars

\* C19, amended: as long as no method holds a colon, a request (method,
\* path) is served by an endpoint exactly when one was configured under a
\* pair with the same method, ignoring case, and the identical path; an
\* endpoint configured with 'get' serves a 'GET' request.
C19_SharedExactlyWhenSamePairNoColon ==
    [][\A mp \in RequestedPairs :
          DataPlaneRequest("s1", mp[1], mp[2]) /\ NoColonConfigured
                /\ ~HasColon(mp[1]) =>
              ret'.configured = HasEndpointFor(mp[1], mp[2])]_vars

\* with endpoints for get /b and POST /b only, a GET /b request has been
\* served after a GET /b/ request was not
C19_Witness ==
    /\ ret.op = "request"
    /\ ret.method = "GET" /\ ret.path = "/b"
    /\ ret.configured
    /\ NoColonConfigured
    /\ sessions["s1"].endpoints["GET:/b"].method = "get"
    /\ "POST:/b" \in DOMAIN sessions["s1"].endpoints
    /\ \E i \in DOMAIN sessions["s1"].requestHistory :
          /\ sessions["s1"].requestHistory[i].path = "/b/"
          /\ ~sessions["s1"].requestHistory[i].configured

\* C20: a history query with limit N (100 when none is given) returns the
\* most recent min(N, 1000, length) records in arrival order, never more
\* than N of them for any N >= 0.
C20_QueryReturnsLastN ==
    ret.op \in {"getRequests", "get_request_history"} =>
        /\ Len(ret.records) <= ret.limit
        /\ Len(ret.records) = Min(ret.limit, Min(1000, Len(ret.stored)))
        /\ \A i \in DOMAIN ret.records :
              ret.records[i] =
                  ret.stored[Len(ret.stored) - Len(ret.records) + i]

\* C21: updateActivity on an id that has a session sets its lastActivityAt
\* to the current time and leaves its id, createdAt, endpoints with their
\* counters, history and socket, and everything else, as they were; on an
\* id without a session it stores nothing and changes nothing.
C21_TouchOnlyActivity ==
    [][UpdateActivityCall("s1") =>
          /\ order' = order
          /\ channels' = channels
          /\ connections' = connections
          /\ DOMAIN sessions' = DOMAIN sessions
          /\ "s1" \in DOMAIN sessions =>
                /\ sessions'["s1"].lastActivityAt = now
                /\ sessions'["s1"].id = sessions["s1"].id
                /\ sessions'["s1"].createdAt = sessions["s1"].createdAt
                /\ sessions'["s1"].endpoints = sessions["s1"].endpoints
                /\ sessions'["s1"].requestHistory = sessions["s1"].requestHistory
                /\ sessions'["s1"].websocket = sessions["s1"].websocket
      ]_vars

\* a session created earlier, with a served endpoint and a socket, has just
\* been touched
C21_Witness ==
    /\ ret.op = "updateActivity"
    /\ "s1" \in DOMAIN sessions
    /\ sessions["s1"].createdAt < now
    /\ sessions["s1"].lastActivityAt = now
    /\ sessions["s1"].websocket # Null
    /\ Len(sessions["s1"].requestHistory) > 0
    /\ \E k \in DOMAIN sessions["s1"].endpoints :
            sessions["s1"].endpoints[k].callCount > 0

\* C22: listSessions returns one entry, with its id and times, for each
\* session in the store and none for a deleted or expired one, in creation
\* order; a session deleted and created again is listed by its new creation.
C22_ListInCreationOrder ==
    ret.op \in {"listSessions", "list_sessions"} =>
        /\ Len(ret.list) = Cardinality(DOMAIN sessions)
        /\ {ret.list[i].id : i \in DOMAIN ret.list} = DOMAIN sessions
        /\ \A i \in DOMAIN ret.list :
              /\ ret.list[i].createdAt = sessions[ret.list[i].id].createdAt
              /\ ret.list[i].lastActivityAt = sessions[ret.list[i].id].lastActivityAt
        /\ \A i, j \in DOMAIN ret.list :
              i < j => ret.list[i].createdAt <= ret.list[j].createdAt

\* s1, whose first session was deleted with its socket, is listed after s2,
\* which was created before s1 was created again
C22_Witness ==
    /\ ret.op = "listSessions"
    /\ Len(ret.list) = 2
    /\ ret.list[1].id = "s2" /\ ret.list[2].id = "s1"
    /\ ret.list[1].createdAt < ret.list[2].createdAt
    /\ \E c \in DOMAIN channels : channels[c].sid = "s1" /\ ~channels[c].attached

\* the endpoints of s1, none when it has no session
EndpointsOf(ss) == IF "s1" \in DOMAIN ss THEN ss["s1"].endpoints ELSE << >>

\* C23: get and list of the registry, GET endpoints and list_endpoints
\* return the stored configurations and leave every response sequence and
\* every call counter as they were, so the next response of a key is the
\* one it would have been without the read.
C23_ReadsAreReadOnly ==
    [][/\ RegGetCall("GET", "/api/test") =>
            /\ registry' = registry
            /\ ret'.config = IF "GET:/api/test" \in DOMAIN registry
                             THEN <<registry["GET:/api/test"]>> ELSE << >>
       /\ RegList =>
            /\ registry' = registry
            /\ ret'.endpoints = {registry[k] : k \in DOMAIN registry}
       /\ HTTPListEndpoints("s1") \/ MCPListEndpoints("s1") =>
            /\ registry' = registry
            /\ EndpointsOf(sessions') = EndpointsOf(sessions)
            /\ ret'.endpoints =
                  {EndpointsOf(sessions)[k] : k \in DOMAIN EndpointsOf(sessions)}
      ]_vars

\* a key of the registry has just been looked up, and one of the session
\* listed before, after its first call and before its second
C23_Witness ==
    /\ ret.op = "registry.get"
    /\ Len(ret.config) = 1
    /\ ret.config[1].callCount = 1
    /\ registry["GET:/api/test"].callCount = 1
    /\ "s1" \in DOMAIN sessions
    /\ \E k \in DOMAIN sessions["s1"].endpoints :
          sessions["s1"].endpoints[k].callCount = 1

\* the history of s1, empty when it has no session
HistoryOf(ss) == IF "s1" \in DOMAIN ss THEN ss["s1"].requestHistory ELSE << >>

\* the map f after the entry of key k, and no other, was removed
Removed(f, k, g) ==
    /\ DOMAIN g = DOMAIN f \ {k}
    /\ \A x \in DOMAIN g : g[x] = f[x]

\* C24: clear(method, path) removes the entry of that key, reports whether
\* there was one, and leaves every other entry with its counter; the key
\* is then absent for getNextResponse and the data plane answers 404;
\* clearAll, and a clear without method or path, leave no entry; the
\* request history is untouched by either.
C24_ClearRemovesExactly ==
    [][\A m \in ClearMethods :
          LET key == m \o ":/api/test"
          IN  /\ RegClear(m, "/api/test") =>
                    /\ ret'.ok = (key \in DOMAIN registry)
                    /\ Removed(registry, key, registry')
                    /\ sessions' = sessions
              /\ RegClearAll => registry' = << >> /\ sessions' = sessions
              /\ RegGetNextResponse(m, "/api/test") /\ key \notin DOMAIN registry
                    => ~ret'.found /\ registry' = registry
              /\ HTTPClearEndpoint("s1", m, "/api/test")
                 \/ MCPClearEndpoints("s1", m, "/api/test") =>
                    /\ Removed(EndpointsOf(sessions), key, EndpointsOf(sessions'))
                    /\ HistoryOf(sessions') = HistoryOf(sessions)
                    /\ registry' = registry
              /\ (\/ HTTPClearAll("s1")
                  \/ \E m2 \in {"GET", ""}, p2 \in {"/api/test", ""} :
                        (m2 = "" \/ p2 = "") /\ MCPClearEndpoints("s1", m2, p2)) =>
                    /\ EndpointsOf(sessions') = << >>
                    /\ HistoryOf(sessions') = HistoryOf(sessions)
                    /\ registry' = registry
              /\ DataPlaneRequest("s1", m, "/api/test")
                    /\ key \notin DOMAIN EndpointsOf(sessions)
                    => ret'.status = 404 /\ ~ret'.configured
      ]_vars

\* the GET key is in neither the registry nor the session, where a request
\* for it has just been answered 404; the POST entries, one of them called,
\* are still there
C24_Witness ==
    /\ ret.op = "request"
    /\ ret.method = "GET"
    /\ ret.status = 404
    /\ "GET:/api/test" \notin DOMAIN EndpointsOf(sessions)
    /\ "POST:/api/test" \in DOMAIN EndpointsOf(sessions)
    /\ "GET:/api/test" \notin DOMAIN registry
    /\ "POST:/api/test" \in DOMAIN registry
    /\ registry["POST:/api/test"].callCount > 0

\* C25: configure_endpoint without sessionId, method or path, or with
\* responses absent, not an array or empty, returns success = false and
\* changes nothing: no session is stored and an endpoint of the key keeps
\* its responses and its counter; with all of them it succeeds.
C25_InvalidConfigureChangesNothing ==
    [][\A s \in {"s1", ""}, m \in {"GET", ""}, p \in {"/api/test", ""},
          r \in ToolResponses :
          MCPConfigureEndpoint(s, m, p, r) =>
              IF s = "" \/ m = "" \/ p = "" \/ r \in {Absent, NotAnArray, JsArray(<< >>)}
              THEN /\ ~ret'.success
                   /\ UNCHANGED <<sessions, order, cleanupInterval, connections,
                                  channels, now, pending, registry>>
              ELSE /\ ret'.success
                   /\ sessions'[s].endpoints["GET:/api/test"].responses = r.items
                   /\ sessions'[s].endpoints["GET:/api/test"].callCount = 0
      ]_vars

\* a call without responses has just been rejected while the key's
\* endpoint has served its first response
C25_Witness ==
    /\ ret.op = "configure_endpoint"
    /\ ~ret.success
    /\ ret.sid = "s1"
    /\ ret.error = "Must provide at least one response"
    /\ "s1" \in DOMAIN sessions
    /\ "GET:/api/test" \in DOMAIN sessions["s1"].endpoints
    /\ sessions["s1"].endpoints["GET:/api/test"].callCount = 1

\* one text has been written to the socket registered for sid, after the
\* texts it had, and it parses to the envelope; no other socket was written
WritesOne(sid, envelope) ==
    LET c == connections[sid]
    IN  /\ Len(channels'[c].sent) = Len(channels[c].sent) + 1
        /\ SubSeq(channels'[c].sent, 1, Len(channels[c].sent)) = channels[c].sent
        /\ SameObject(JsonParse(channels'[c].sent[Len(channels'[c].sent)]), envelope)
        /\ \A c2 \in DOMAIN channels \ {c} : channels'[c2] = channels[c2]

\* C26: every text written to a socket is an envelope whose type is
\* "action" or "data" and which has no property besides action and params,
\* or data; a successful sendAction writes one {type: "action", action,
\* params} and a successful sendData one {type: "data", data}, with the
\* values of the caller.
C26_OnlyTwoEnvelopes ==
    [][/\ \A c \in DOMAIN channels' : \A i \in DOMAIN channels'[c].sent :
            LET msg == JsonParse(channels'[c].sent[i])
            IN  \/ /\ Field(msg, "type") = JsString("action")
                   /\ DOMAIN msg \subseteq {"type", "action", "params"}
                \/ /\ Field(msg, "type") = JsString("data")
                   /\ DOMAIN msg \subseteq {"type", "data"}
       /\ "s1" \in DOMAIN connections =>
            /\ \A a \in ActionNames, pv \in ParamValues :
                  /\ HTTPSendAction("s1", a, pv) =>
                        /\ ret'.ok
                        /\ WritesOne("s1", [type |-> JsString("action"),
                                            action |-> a, params |-> pv])
                  /\ MCPSendAction("s1", a, pv) =>
                        /\ ret'.success
                        /\ WritesOne("s1", [type |-> JsString("action"),
                                            action |-> a, params |-> pv])
            /\ \A d \in DataValues \cup {Undefined} :
                  HTTPSendData("s1", d) =>
                        /\ ret'.ok
                        /\ WritesOne("s1", [type |-> JsString("data"), data |-> d])
            /\ \A d \in DataValues :
                  MCPSendData("s1", d) =>
                        /\ ret'.success
                        /\ WritesOne("s1", [type |-> JsString("data"), data |-> d])
      ]_vars

\* the tool has just sent an object as data, after an action without
\* parameters, to the same socket
C26_Witness ==
    /\ ret.op = "send_websocket_data"
    /\ ret.success
    /\ channels[connections["s1"]].sent =
          << <<(<<"type", "\"action\"">>), (<<"action", "\"logout\"">>)>>,
             <<(<<"type", "\"data\"">>), (<<"data", "{\"reason\":\"t\"}">>)>> >>

\* the hub entry of t and the texts written to the sockets of t are as
\* they were
Untouched(t) ==
    /\ (t \in DOMAIN connections') = (t \in DOMAIN connections)
    /\ t \in DOMAIN connections => connections'[t] = connections[t]
    /\ \A c \in DOMAIN channels :
          channels[c].sid = t => channels'[c].sent = channels[c].sent

\* C27: register (a handshake), unregister (a close), sendAction and
\* sendData for session s leave the hub entry of every other session t as
\* it was and write to no socket of t.
C27_HubKeyedBySession ==
    [][\A s \in SessionIds : \A t \in SessionIds \ {s} :
          /\ Handshake(s) => Untouched(t)
          /\ (\E c \in DOMAIN channels : channels[c].sid = s /\ SocketClose(c))
                => Untouched(t)
          /\ HTTPSendAction(s, JsString("logout"), Undefined) => Untouched(t)
          /\ HTTPSendData(s, JsString("hello")) => Untouched(t)
      ]_vars

\* the socket of one session has just closed while the other session is
\* registered and has received a message
C27_Witness ==
    /\ ret.op = "close"
    /\ ret.sid \notin DOMAIN connections
    /\ \E t \in SessionIds \ {ret.sid} :
          /\ t \in DOMAIN connections
          /\ channels[connections[t]].sent # << >>

\* C28: a data-plane request gets or creates its session and sets the
\* session's lastActivityAt to the time of the request; a sweep keeps, as it
\* is, every session that recorded a request no more than TTL ago.
C28_RequestKeepsSessionAlive ==
    [][/\ \A s \in SessionIds :
            DataPlaneRequest(s, "GET", "/api/test") =>
                /\ s \in DOMAIN sessions'
                /\ sessions'[s].lastActivityAt = now
                /\ sessions'[s].requestHistory[
                        Len(sessions'[s].requestHistory)].timestamp = now
       /\ CleanupExpired =>
            \A s \in DOMAIN sessions :
                (\E i \in DOMAIN sessions[s].requestHistory :
                      now - sessions[s].requestHistory[i].timestamp <= TTL)
                    => s \in DOMAIN sessions' /\ sessions'[s] = sessions[s]
      ]_vars

\* a sweep has just kept a session that was created more than TTL ago and
\* received its last request exactly TTL ago
C28_Witness ==
    /\ ret.op = "cleanupExpired"
    /\ \E s \in DOMAIN sessions :
          /\ now - sessions[s].createdAt > TTL
          /\ Len(sessions[s].requestHistory) > 0
          /\ now - sessions[s].requestHistory[
                      Len(sessions[s].requestHistory)].timestamp = TTL

\* C30: when a socket closes that is not the one registered for its
\* session id (a newer handshake replaced it, or it belongs to a deleted
\* session whose id has a new session and socket), the hub entry and the
\* session's socket reference stay as they are.
C30_StaleCloseKeepsNewer ==
    [][\A c \in DOMAIN channels :
          (/\ SocketClose(c)
           /\ IsConnected(connections, channels[c].sid)
           /\ connections[channels[c].sid] # c)
          => /\ connections' = connections
             /\ sessions' = sessions
      ]_vars

\* the open socket of the latest handshake of a session that is in the store
LiveConnection(c) ==
    /\ channels[c].state = "open"
    /\ channels[c].attached
    /\ channels[c].sid \in DOMAIN sessions
    /\ \A c2 \in DOMAIN channels : channels[c2].sid = channels[c].sid => c2 <= c

\* C29: destroy clears the sweep timer, which stays cleared, and deletes
\* every session; every live connection of a session has been closed when
\* it returns.
C29_DestroyTearsDown ==
    [][/\ Destroy =>
            /\ sessions' = << >>
            /\ order' = << >>
            /\ ~cleanupInterval'
            /\ \A c \in DOMAIN channels :
                  LiveConnection(c) => channels'[c].state # "open"
       /\ ~cleanupInterval => ~cleanupInterval' /\ ~CleanupExpired
      ]_vars

\* C31: a hub entry is added or replaced only by the handshake (register)
\* and removed only by the channel's close callback (unregister): a push of
\* an action or of data, an endpoint configuration or clearing, a data-plane
\* request, a session deletion, the expiry sweep and destroy all leave the
\* hub's map exactly as it was.
C31_OnlyHandshakeAndCloseMoveHub ==
    [][/\ connections' # connections
            => \/ \E s \in SessionIds :
                    /\ Handshake(s)
                    /\ connections' = With(connections, s, Len(channels) + 1)
               \/ \E c \in DOMAIN channels :
                    /\ SocketClose(c)
                    /\ connections' = Without(connections, {channels[c].sid})
       /\ ret'.op \in {"sendAction", "sendData", "configure", "clearAll",
                       "request", "deleteSession", "cleanupExpired", "destroy"}
            => connections' = connections]_vars

\* the session was deleted while connected and the hub still holds its entry
C31_Witness ==
    /\ ret.op = "deleteSession"
    /\ ret.ok
    /\ "s1" \notin DOMAIN sessions
    /\ "s1" \in DOMAIN connections

\* C32: expiry is enforced by the sweep only, never on access. A data-plane
\* request to a session that has been idle for longer than the ttl and has
\* not been swept yet finds that same session (same id and creation time,
\* same endpoints), is answered from the configured sequence at the stored
\* call count, which it advances by one, is appended to the stored history,
\* and sets lastActivityAt to the time of the request, so that the session
\* is no longer expired and a sweep that runs next keeps it unchanged.
C32_ExpiryOnlyBySweep ==
    [][/\ /\ "s1" \in DOMAIN sessions
          /\ now - sessions["s1"].lastActivityAt > TTL
          /\ DataPlaneRequest("s1", "GET", "/api/test")
          => LET old == sessions["s1"]
                 new == sessions'["s1"]
                 key == "GET:/api/test"
             IN  /\ new.id = old.id
                 /\ new.createdAt = old.createdAt
                 /\ new.websocket = old.websocket
                 /\ DOMAIN new.endpoints = DOMAIN old.endpoints
                 /\ key \in DOMAIN old.endpoints
                      => LET n == Len(old.endpoints[key].responses)
                             c == old.endpoints[key].callCount
                         IN  /\ ret'.configured
                             /\ ret'.status =
                                  old.endpoints[key].responses[Min(c, n - 1) + 1].status
                             /\ new.endpoints[key].responses = old.endpoints[key].responses
                             /\ new.endpoints[key].callCount = c + 1
                 /\ Len(new.requestHistory) = Len(old.requestHistory) + 1
                 /\ SubSeq(new.requestHistory, 1, Len(old.requestHistory))
                      = old.requestHistory
                 /\ new.lastActivityAt = now
                 /\ now' - new.lastActivityAt <= TTL
       /\ /\ CleanupExpired
          /\ "s1" \in DOMAIN sessions
          /\ now - sessions["s1"].lastActivityAt <= TTL
          => /\ "s1" \in DOMAIN sessions'
             /\ sessions'["s1"] = sessions["s1"]]_vars

\* a sweep has just kept the session whose last two requests lie further
\* apart than the ttl, the later one answered with the sequence's second
\* response
C32_Witness ==
    /\ ret.op = "cleanupExpired"
    /\ ret.removed = {}
    /\ "s1" \in DOMAIN sessions
    /\ Len(sessions["s1"].requestHistory) = 2
    /\ sessions["s1"].requestHistory[2].timestamp
         - sessions["s1"].requestHistory[1].timestamp > TTL
    /\ sessions["s1"].requestHistory[1].status = 500
    /\ sessions["s1"].requestHistory[2].status = 200
    /\ sessions["s1"].endpoints["GET:/api/test"].callCount = 2

\* C33: the call count of an endpoint is the number of requests the key has
\* served since it was last configured. It is 0 when the key is configured,
\* one more after every request served by the key (also once the sequence
\* is exhausted), never negative, and it is left as it was by every other
\* step: a request to another key or to an unconfigured key, a read of the
\* endpoints, a handshake, a push. The same holds for a stand-alone
\* registry and its getNextResponse.
C33_CountIsServedSinceConfigured ==
    [][/\ \A s \in DOMAIN sessions' : \A k \in DOMAIN sessions'[s].endpoints :
            LET count == sessions'[s].endpoints[k].callCount
            IN  /\ count >= 0
                /\ count = IF <<s, k>> \in DOMAIN served'
                           THEN Len(served'[<<s, k>>]) ELSE 0
                /\ IF ret'.op \in {"configure", "configure_endpoint"} /\ ret'.key = k
                   THEN count = 0
                   ELSE /\ s \in DOMAIN sessions
                        /\ k \in DOMAIN sessions[s].endpoints
                        /\ count = sessions[s].endpoints[k].callCount
                                + IF /\ ret'.op = "request"
                                     /\ ret'.key = k
                                     /\ ret'.configured
                                  THEN 1 ELSE 0
       /\ \A k \in DOMAIN registry' :
            LET count == registry'[k].callCount
            IN  /\ count >= 0
                /\ count = IF k \in DOMAIN regServed'
                           THEN Len(regServed'[k]) ELSE 0
                /\ IF ret'.op = "registry.configure" /\ ret'.key = k
                   THEN count = 0
                   ELSE /\ k \in DOMAIN registry
                        /\ count = registry[k].callCount
                                + IF /\ ret'.op = "registry.getNextResponse"
                                     /\ ret'.key = k
                                     /\ ret'.found
                                  THEN 1 ELSE 0]_vars

\* the single response of a key has been served three times: the list shows
\* a count of 3 for it and a count of 0 for the other key, configured
\* through the tool and never served
C33_Witness ==
    /\ ret.op = "listEndpoints"
    /\ \E ep \in ret.endpoints :
            ep.method = "get" /\ ep.callCount = 3 /\ Len(ep.responses) = 1
    /\ \E ep \in ret.endpoints : ep.method = "POST" /\ ep.callCount = 0

\* the endpoint map after configure("get", "/api/test", responses)
AgreeConfigured(eps, responses) ==
    With(eps, "GET:/api/test",
         [method |-> "get", path |-> "/api/test",
          responses |-> responses, callCount |-> 0])

\* can the map answer a request to GET /api/test
AgreeServable(eps) ==
    /\ "GET:/api/test" \in DOMAIN eps
    /\ eps["GET:/api/test"].responses # << >>

\* the response the map gives to the next request to GET /api/test
AgreeResponse(eps) ==
    LET ep == eps["GET:/api/test"]
    IN  ep.responses[Min(ep.callCount, Len(ep.responses) - 1) + 1]

\* the endpoint map after a request to GET /api/test
AgreeServed(eps) ==
    IF AgreeServable(eps)
    THEN [eps EXCEPT !["GET:/api/test"].callCount = @ + 1]
    ELSE eps

\* C34: the EndpointRegistry class, the HTTP routes and the MCP tools
\* implement the same endpoint operations. Each of configure, next response,
\* clear and clear-all has one effect on the endpoint map and one answer,
\* whichever of the three carries it out; maps that start equal (empty)
\* therefore hold the same keys, response sequences and call counts and
\* give the same response (or none, 404) after the same operations.
C34_ImplementationsAgree ==
    [][/\ \A rs \in AgreeLists :
            /\ RegConfigure("get", "/api/test", rs)
                => registry' = AgreeConfigured(registry, rs)
            /\ HTTPConfigure("s1", "get", "/api/test", rs)
                => EndpointsOf(sessions') = AgreeConfigured(EndpointsOf(sessions), rs)
            /\ MCPConfigureEndpoint("s1", "get", "/api/test", JsArray(rs))
                => EndpointsOf(sessions') = AgreeConfigured(EndpointsOf(sessions), rs)
       /\ RegGetNextResponse("GET", "/api/test")
            => /\ registry' = AgreeServed(registry)
               /\ ret'.found = AgreeServable(registry)
               /\ ret'.found => ret'.response = AgreeResponse(registry)
       /\ DataPlaneRequest("s1", "GET", "/api/test")
            => /\ EndpointsOf(sessions') = AgreeServed(EndpointsOf(sessions))
               /\ ret'.configured = AgreeServable(EndpointsOf(sessions))
               /\ IF ret'.configured
                  THEN /\ ret'.status = AgreeResponse(EndpointsOf(sessions)).status
                       /\ ret'.body = AgreeResponse(EndpointsOf(sessions)).body
                  ELSE ret'.status = 404
       /\ RegClear("GET", "/api/test")
            => registry' = Without(registry, {"GET:/api/test"})
       /\ HTTPClearEndpoint("s1", "GET", "/api/test")
            => EndpointsOf(sessions') = Without(EndpointsOf(sessions), {"GET:/api/test"})
       /\ MCPClearEndpoints("s1", "GET", "/api/test")
            => EndpointsOf(sessions') = Without(EndpointsOf(sessions), {"GET:/api/test"})
       /\ RegClearAll => registry' = << >>
       /\ HTTPClearAll("s1") => EndpointsOf(sessions') = << >>
       /\ MCPClearEndpoints("s1", "", "/api/test") => EndpointsOf(sessions') = << >>]_vars

\* C35: once a session has been deleted or swept its id is unknown again,
\* and the next access that creates it yields a fresh session: created and
\* last active now, with no endpoint, no history and no socket other than
\* what that access itself adds. A request therefore finds none of the
\* earlier endpoints and is answered 404, a configure starts the key at
\* count 0, a handshake attaches only its own socket.
C35_RecreatedSessionIsFresh ==
    [][\A s \in SessionIds : s \notin DOMAIN sessions =>
        LET fresh == [id |-> s, createdAt |-> now, lastActivityAt |-> now,
                      endpoints |-> << >>, websocket |-> Null,
                      requestHistory |-> << >>]
        IN  /\ DataPlaneRequest(s, "GET", "/api/test")
                => /\ ret'.status = 404
                   /\ sessions'[s] = [fresh EXCEPT !.requestHistory =
                        <<[method |-> "GET", path |-> "/api/test", status |-> 404,
                           timestamp |-> now, configured |-> FALSE,
                           responseTime |-> 0]>>]
            /\ HTTPConfigure(s, "get", "/api/test", <<R200>>)
                => sessions'[s] = [fresh EXCEPT !.endpoints =
                        [k \in {"GET:/api/test"} |->
                            [method |-> "get", path |-> "/api/test",
                             responses |-> <<R200>>, callCount |-> 0]]]
            /\ Handshake(s)
                => sessions'[s] = [fresh EXCEPT !.websocket = Len(channels) + 1]]_vars

\* an earlier session of the id had a socket and was removed; a later
\* request to the path has created the session anew and was answered 404
C35_Witness ==
    /\ ret.op = "request"
    /\ ret.status = 404
    /\ "s1" \in DOMAIN sessions
    /\ sessions["s1"].createdAt = now
    /\ now > 0
    /\ sessions["s1"].endpoints = << >>
    /\ sessions["s1"].websocket = Null
    /\ \E c \in DOMAIN channels : channels[c].sid = "s1" /\ ~channels[c].attached

\* C36: a live WebSocket connection does not keep a session alive. A
\* handshake for a session that exists leaves its lastActivityAt (and its
\* creation time) as it was, and a sweep that finds a session idle for
\* longer than the ttl removes it although it has a live connection, and
\* closes that connection.
C36_ConnectionDoesNotKeepAlive ==
    [][/\ \A s \in SessionIds :
            Handshake(s) /\ s \in DOMAIN sessions
                => /\ sessions'[s].lastActivityAt = sessions[s].lastActivityAt
                   /\ sessions'[s].createdAt = sessions[s].createdAt
       /\ CleanupExpired =>
            \A c \in DOMAIN channels :
                /\ LiveConnection(c)
                /\ now - sessions[channels[c].sid].lastActivityAt > TTL
                => /\ channels[c].sid \notin DOMAIN sessions'
                   /\ channels'[c].state # "open"]_vars

\* C37: lastActivityAt of a session that exists is set, to the current
\* time, by a data-plane request and by the HTTP configure route, and by
\* nothing else: listing or clearing the endpoints, reading the history,
\* listing the sessions, a handshake, a push of an action or of data, and
\* every MCP tool, configure_endpoint included, leave it as it was.
C37_OnlyRequestAndHttpConfigureRefresh ==
    [][\A s \in DOMAIN sessions \cap DOMAIN sessions' :
            IF \/ DataPlaneRequest(s, "GET", "/api/test")
               \/ HTTPConfigure(s, "get", "/api/test", <<R200>>)
            THEN sessions'[s].lastActivityAt = now
            ELSE sessions'[s].lastActivityAt = sessions[s].lastActivityAt]_vars

\* the tool has just configured an endpoint of a session that was last
\* active earlier, and the session's activity time is still the earlier one
C37_Witness ==
    /\ ret.op = "configure_endpoint"
    /\ ret.success
    /\ "s1" \in DOMAIN sessions
    /\ sessions["s1"].lastActivityAt < now
    /\ sessions["s1"].createdAt < sessions["s1"].lastActivityAt
    /\ "GET:/api/test" \in DOMAIN sessions["s1"].endpoints

\* C38: while the sweep timer stays armed (destroy never cancels it), every
\* session that is not refreshed any more is eventually removed from the
\* store: a session last active at t is, later on, either gone or active
\* at another time. The removal is done by the first sweep that runs once
\* the idle time exceeds the ttl, i.e. within one sweep period: every sweep
\* removes every session it finds idle for longer than the ttl.
C38_IdleSessionEventuallyRemoved ==
    /\ []cleanupInterval =>
            \A s \in SessionIds : \A t \in 0..MaxTime :
                (s \in DOMAIN sessions /\ sessions[s].lastActivityAt = t)
                    ~> (s \notin DOMAIN sessions \/ sessions[s].lastActivityAt # t)
    /\ [][CleanupExpired =>
            \A s \in DOMAIN sessions :
                now - sessions[s].lastActivityAt > TTL => s \notin DOMAIN sessions']_vars

\* a sweep has just removed one session, idle for too long, and kept the
\* other, which had been refreshed later
C38_Witness ==
    /\ ret.op = "cleanupExpired"
    /\ ret.removed = {"s2"}
    /\ cleanupInterval
    /\ "s1" \in DOMAIN sessions
    /\ "s2" \notin DOMAIN sessions
    /\ sessions["s1"].createdAt < sessions["s1"].lastActivityAt

\* C39: every session in the store is stored under its own id and was
\* created no later than it was last active; from one state to the next a
\* session that stays in the store keeps its id and its creation time, and
\* its lastActivityAt does not decrease (the clock never runs backwards).
C39_TimestampsOrdered ==
    [][\A s \in DOMAIN sessions' :
            /\ sessions'[s].id = s
            /\ sessions'[s].createdAt <= sessions'[s].lastActivityAt
            /\ sessions'[s].lastActivityAt <= now'
            /\ s \in DOMAIN sessions =>
                    /\ sessions'[s].id = sessions[s].id
                    /\ sessions'[s].createdAt = sessions[s].createdAt
                    /\ sessions'[s].lastActivityAt >= sessions[s].lastActivityAt]_vars

\* a session created at one time and refreshed at a later one has, later
\* still, accepted a socket
C39_Witness ==
    /\ ret.op = "handshake"
    /\ "s1" \in DOMAIN sessions
    /\ sessions["s1"].websocket # Null
    /\ sessions["s1"].createdAt < sessions["s1"].lastActivityAt
    /\ sessions["s1"].lastActivityAt < now

\* C40: a data-plane request to a key that has no endpoint, or an endpoint
\* with no responses, is answered 404 and changes no endpoint and no call
\* counter. All it does is create the session if the id has none, set
\* lastActivityAt to the time of the request and append one record of the
\* request to the history. A getNextResponse of a stand-alone registry for
\* such a key finds nothing and changes nothing.
C40_MissChangesNoEndpoint ==
    [][\A p \in MissPaths :
        LET key == "GET:" \o p
            before == IF "s1" \in DOMAIN sessions
                      THEN sessions["s1"]
                      ELSE [id |-> "s1", createdAt |-> now, lastActivityAt |-> now,
                            endpoints |-> << >>, websocket |-> Null,
                            requestHistory |-> << >>]
        IN  /\ /\ DataPlaneRequest("s1", "GET", p)
               /\ \/ key \notin DOMAIN before.endpoints
                  \/ before.endpoints[key].responses = << >>
               => /\ ret'.status = 404
                  /\ DOMAIN sessions' = DOMAIN sessions \cup {"s1"}
                  /\ sessions'["s1"] =
                        [before EXCEPT
                            !.lastActivityAt = now,
                            !.requestHistory = Append(@,
                                [method |-> "GET", path |-> p, status |-> 404,
                                 timestamp |-> now, configured |-> FALSE,
                                 responseTime |-> 0])]
                  /\ served' = served
                  /\ UNCHANGED <<cleanupInterval, connections, channels, now, registry>>
            /\ /\ RegGetNextResponse("GET", p)
               /\ \/ key \notin DOMAIN registry
                  \/ registry[key].responses = << >>
               => /\ ~ret'.found
                  /\ UNCHANGED <<registry, sessions, connections, channels>>]_vars

\* a request has just been answered 404 by a session that holds the key with
\* an empty response list: the entry is as configured, its count still 0,
\* and the history has grown to two records
C40_Witness ==
    /\ ret.op = "request"
    /\ ret.status = 404
    /\ ret.key = "GET:/api/test"
    /\ "s1" \in DOMAIN sessions
    /\ "GET:/api/test" \in DOMAIN sessions["s1"].endpoints
    /\ sessions["s1"].endpoints["GET:/api/test"].responses = << >>
    /\ sessions["s1"].endpoints["GET:/api/test"].callCount = 0
    /\ Len(sessions["s1"].requestHistory) = 2
    /\ sessions["s1"].createdAt < sessions["s1"].lastActivityAt
    /\ sessions["s1"].lastActivityAt = now

====
